---- MODULE Spec2Model ----
(***************************************************************************)
(* RiskRadar: label generation, historical feature extraction, feature     *)
(* assembly and route risk accumulation.                                    *)
(*                                                                         *)
(* Units.  Timestamps are whole hours since an epoch that falls on a       *)
(* midnight, so the calendar day of a timestamp t is t \div 24.  Positions *)
(* are kilometres of arc along one meridian, for which the haversine       *)
(* formula reduces to the absolute difference.  Magnitudes are tenths.     *)
(* Risk scores are whole percents and a probability is kept as an exact    *)
(* fraction <<numerator, denominator>>.                                     *)
(***************************************************************************)
EXTENDS Integers, Sequences, FiniteSets, TLC

\* ------------------------------------------------------------------ bounds

\* Largest number of rows of an event store.
MaxEvents == 2

\* Largest number of waypoints of a route.
MaxPoints == 3

\* ------------------------------------------------- configuration constants

HoursPerDay == 24

\* sensor_labels.py
LABEL_RADIUS_KM == 100
PREDICTION_HORIZON_HOURS == 72
FIRMS_CONFIDENCE_THRESHOLD == 70
FIRMS_MIN_FRP == 30
FIRMS_MIN_DETECTIONS == 1
USGS_RADIUS_KM == 150
USGS_MIN_MAGNITUDE == 20
USGS_MIN_EVENTS == 1
USGS_SIGNIFICANT_MAG == 40

\* sensor_features.py
FEATURE_RADIUS_KM == 50
FIRMS_CONFIDENCE_THR == 70
FEATURE_FIRMS_MIN_FRP == 30
LOOKBACK_DAYS_SHORT == 7
LOOKBACK_DAYS_LONG == 30
FEATURE_MIN_MAGNITUDE == 25
MAG_5PLUS == 50
TEST_SIZE_PERCENT == 20
FIRMS_DAYLIGHT_ONLY == TRUE
SAMPLE_FREQUENCY_DAYS == 7

DAYS_SENTINEL == 999

NoResult == [none |-> TRUE]

\* No weather request has been made
NotCalled == [kind |-> "not_called"]

\* ----------------------------------------------------------------- helpers

Abs(x) == IF x < 0 THEN -x ELSE x

Min2(a, b) == IF a < b THEN a ELSE b

\* timedelta(days = d) and timedelta(hours = h), in hours
timedelta_days(d) == d * HoursPerDay

\* strftime('%Y-%m-%d') and .dt.date: the calendar day of a timestamp
DateOf(t) == t \div HoursPerDay

\* Series.max(), Series.sum() of a column of a non-empty frame
RECURSIVE SeqMax(_)
SeqMax(s) ==
    IF Len(s) = 1 THEN Head(s)
    ELSE LET m == SeqMax(Tail(s)) IN IF Head(s) > m THEN Head(s) ELSE m

RECURSIVE SeqSum(_)
SeqSum(s) == IF s = <<>> THEN 0 ELSE Head(s) + SeqSum(Tail(s))

\* Series.mean(): the exact fraction sum / count
SeqMean(s) == <<SeqSum(s), Len(s)>>

Column(df, name) == [i \in DOMAIN df |-> df[i][name]]

\* df[mask]: the rows whose mask entry is true, order kept
RECURSIVE MaskSelect(_, _)
MaskSelect(df, mask) ==
    IF df = <<>> THEN <<>>
    ELSE (IF Head(mask) THEN <<Head(df)>> ELSE <<>>)
         \o MaskSelect(Tail(df), Tail(mask))

\* geo_utils.haversine_distance for two points of the same meridian
haversine_distance(lat1, lon1, lat2, lon2) == Abs(lat2 - lat1)

\* geo_utils.haversine_distance_vectorized: one reference point, N targets
haversine_distance_vectorized(lat1, lon1, lat2_array, lon2_array) ==
    [i \in DOMAIN lat2_array |-> Abs(lat2_array[i] - lat1)]

\* ------------------------------------------------------------- label builders

\* Faulty variant: FutureFires without the FRP threshold.
FutureFires_no_frp(site, target_date, firms_df, has_daynight, confidence_threshold, min_frp, radius_km) ==
    LET future_start == target_date
        future_end == target_date + PREDICTION_HORIZON_HOURS
        combined_filter ==
            [i \in DOMAIN firms_df |->
                /\ firms_df[i].acq_date >= future_start
                /\ firms_df[i].acq_date < future_end
                /\ firms_df[i].confidence >= confidence_threshold
                /\ (has_daynight => firms_df[i].daynight = "D")]
        future_fires == MaskSelect(firms_df, combined_filter)
        distances == haversine_distance_vectorized(
                        site.lat, site.lon,
                        Column(future_fires, "latitude"),
                        Column(future_fires, "longitude"))
    IN  IF Len(future_fires) > 0
        THEN MaskSelect(future_fires,
                        [i \in DOMAIN future_fires |-> distances[i] < radius_km])
        ELSE future_fires

\* Faulty variant: FutureFires with a non-strict radius test.
FutureFires_radius_le(site, target_date, firms_df, has_daynight, confidence_threshold, min_frp, radius_km) ==
    LET future_start == target_date
        future_end == target_date + PREDICTION_HORIZON_HOURS
        combined_filter ==
            [i \in DOMAIN firms_df |->
                /\ firms_df[i].acq_date >= future_start
                /\ firms_df[i].acq_date < future_end
                /\ firms_df[i].confidence >= confidence_threshold
                /\ firms_df[i].frp >= min_frp
                /\ (has_daynight => firms_df[i].daynight = "D")]
        future_fires == MaskSelect(firms_df, combined_filter)
        distances == haversine_distance_vectorized(
                        site.lat, site.lon,
                        Column(future_fires, "latitude"),
                        Column(future_fires, "longitude"))
    IN  IF Len(future_fires) > 0
        THEN MaskSelect(future_fires,
                        [i \in DOMAIN future_fires |-> distances[i] <= radius_km])
        ELSE future_fires

\* Faulty variant: FutureFires without the lower end of the horizon.
FutureFires_no_start(site, target_date, firms_df, has_daynight, confidence_threshold, min_frp, radius_km) ==
    LET future_start == target_date
        future_end == target_date + PREDICTION_HORIZON_HOURS
        combined_filter ==
            [i \in DOMAIN firms_df |->
                /\ firms_df[i].acq_date < future_end
                /\ firms_df[i].confidence >= confidence_threshold
                /\ firms_df[i].frp >= min_frp
                /\ (has_daynight => firms_df[i].daynight = "D")]
        future_fires == MaskSelect(firms_df, combined_filter)
        distances == haversine_distance_vectorized(
                        site.lat, site.lon,
                        Column(future_fires, "latitude"),
                        Column(future_fires, "longitude"))
    IN  IF Len(future_fires) > 0
        THEN MaskSelect(future_fires,
                        [i \in DOMAIN future_fires |-> distances[i] < radius_km])
        ELSE future_fires

\* Rows of firms_df that pass the time, severity and daylight mask of
\* build_fire_label, then its radius filter.
FutureFires(site, target_date, firms_df, has_daynight, confidence_threshold, min_frp, radius_km) ==
    LET future_start == target_date
        future_end == target_date + PREDICTION_HORIZON_HOURS
        combined_filter ==
            [i \in DOMAIN firms_df |->
                /\ firms_df[i].acq_date >= future_start
                /\ firms_df[i].acq_date < future_end
                /\ firms_df[i].confidence >= confidence_threshold
                /\ firms_df[i].frp >= min_frp
                /\ (has_daynight => firms_df[i].daynight = "D")]
        future_fires == MaskSelect(firms_df, combined_filter)
        distances == haversine_distance_vectorized(
                        site.lat, site.lon,
                        Column(future_fires, "latitude"),
                        Column(future_fires, "longitude"))
    IN  IF Len(future_fires) > 0
        THEN MaskSelect(future_fires,
                        [i \in DOMAIN future_fires |-> distances[i] < radius_km])
        ELSE future_fires

\* Faulty variant: build_fire_label with a strict minimum-count test.
build_fire_label_strict(site, target_date, firms_df, has_daynight, confidence_threshold, min_frp, min_detections, radius_km) ==
    LET future_start == target_date
        future_end == target_date + PREDICTION_HORIZON_HOURS
        future_fires == FutureFires(site, target_date, firms_df, has_daynight,
                                    confidence_threshold, min_frp, radius_km)
        num_detections == Len(future_fires)
        brightness == Column(future_fires, "brightness")
        frp == Column(future_fires, "frp")
    IN  [label |-> IF num_detections > min_detections THEN 1 ELSE 0,
         metadata |->
            [num_detections |-> num_detections,
             max_brightness |-> IF num_detections > 0 THEN SeqMax(brightness) ELSE 0,
             avg_brightness |-> IF num_detections > 0 THEN SeqMean(brightness) ELSE <<0, 1>>,
             max_frp |-> IF num_detections > 0 THEN SeqMax(frp) ELSE 0,
             future_window |-> <<DateOf(future_start), DateOf(future_end)>>]]

build_fire_label(site, target_date, firms_df, has_daynight, confidence_threshold, min_frp, min_detections, radius_km) ==
    LET future_start == target_date
        future_end == target_date + PREDICTION_HORIZON_HOURS
        future_fires == FutureFires(site, target_date, firms_df, has_daynight,
                                    confidence_threshold, min_frp, radius_km)
        num_detections == Len(future_fires)
        brightness == Column(future_fires, "brightness")
        frp == Column(future_fires, "frp")
    IN  [label |-> IF num_detections >= min_detections THEN 1 ELSE 0,
         metadata |->
            [num_detections |-> num_detections,
             max_brightness |-> IF num_detections > 0 THEN SeqMax(brightness) ELSE 0,
             avg_brightness |-> IF num_detections > 0 THEN SeqMean(brightness) ELSE <<0, 1>>,
             max_frp |-> IF num_detections > 0 THEN SeqMax(frp) ELSE 0,
             future_window |-> <<DateOf(future_start), DateOf(future_end)>>]]

\* Faulty variant: FutureQuakes with the horizon end included.
FutureQuakes_inclusive_end(site, target_date, usgs_df, min_magnitude, radius_km) ==
    LET future_start == target_date
        future_end == target_date + PREDICTION_HORIZON_HOURS
        mask ==
            [i \in DOMAIN usgs_df |->
                /\ usgs_df[i].time >= future_start
                /\ usgs_df[i].time <= future_end
                /\ usgs_df[i].mag >= min_magnitude]
        future_quakes == MaskSelect(usgs_df, mask)
        distances == haversine_distance_vectorized(
                        site.lat, site.lon,
                        Column(future_quakes, "latitude"),
                        Column(future_quakes, "longitude"))
    IN  IF Len(future_quakes) > 0
        THEN MaskSelect(future_quakes,
                        [i \in DOMAIN future_quakes |-> distances[i] < radius_km])
        ELSE future_quakes

\* Rows of usgs_df that pass the time and magnitude mask of build_quake_label,
\* then its radius filter.
FutureQuakes(site, target_date, usgs_df, min_magnitude, radius_km) ==
    LET future_start == target_date
        future_end == target_date + PREDICTION_HORIZON_HOURS
        mask ==
            [i \in DOMAIN usgs_df |->
                /\ usgs_df[i].time >= future_start
                /\ usgs_df[i].time < future_end
                /\ usgs_df[i].mag >= min_magnitude]
        future_quakes == MaskSelect(usgs_df, mask)
        distances == haversine_distance_vectorized(
                        site.lat, site.lon,
                        Column(future_quakes, "latitude"),
                        Column(future_quakes, "longitude"))
    IN  IF Len(future_quakes) > 0
        THEN MaskSelect(future_quakes,
                        [i \in DOMAIN future_quakes |-> distances[i] < radius_km])
        ELSE future_quakes

\* Faulty variant: build_quake_label returning only the count and the window when no
\* event survives.
build_quake_label_short_meta(site, target_date, usgs_df, min_magnitude, min_events, radius_km) ==
    LET future_start == target_date
        future_end == target_date + PREDICTION_HORIZON_HOURS
        future_quakes == FutureQuakes(site, target_date, usgs_df,
                                      min_magnitude, radius_km)
        num_events == Len(future_quakes)
        mag == Column(future_quakes, "mag")
    IN  [label |-> IF num_events >= min_events THEN 1 ELSE 0,
         metadata |->
            IF num_events > 0
            THEN [num_events |-> num_events,
                  max_magnitude |-> SeqMax(mag),
                  avg_magnitude |-> SeqMean(mag),
                  num_significant |->
                      Len(SelectSeq(future_quakes,
                                    LAMBDA r : r.mag >= USGS_SIGNIFICANT_MAG)),
                  future_window |-> <<DateOf(future_start), DateOf(future_end)>>]
            ELSE [num_events |-> 0,
                  future_window |-> <<DateOf(future_start), DateOf(future_end)>>]]

build_quake_label(site, target_date, usgs_df, min_magnitude, min_events, radius_km) ==
    LET future_start == target_date
        future_end == target_date + PREDICTION_HORIZON_HOURS
        future_quakes == FutureQuakes(site, target_date, usgs_df,
                                      min_magnitude, radius_km)
        num_events == Len(future_quakes)
        mag == Column(future_quakes, "mag")
    IN  [label |-> IF num_events >= min_events THEN 1 ELSE 0,
         metadata |->
            [num_events |-> num_events,
             max_magnitude |-> IF num_events > 0 THEN SeqMax(mag) ELSE 0,
             avg_magnitude |-> IF num_events > 0 THEN SeqMean(mag) ELSE <<0, 1>>,
             num_significant |->
                IF num_events > 0
                THEN Len(SelectSeq(future_quakes,
                                   LAMBDA r : r.mag >= USGS_SIGNIFICANT_MAG))
                ELSE 0,
             future_window |-> <<DateOf(future_start), DateOf(future_end)>>]]

\* ------------------------------------------------- historical feature extractors

\* A Python dict: the sequence of its items in insertion order.
DictKeys(d) == [i \in DOMAIN d |-> d[i].k]

DictHas(d, name) == \E i \in DOMAIN d : d[i].k = name

DictGet(d, name) == d[CHOOSE i \in DOMAIN d : d[i].k = name].v

\* dict.update(e): a key already present keeps its place and takes the new
\* value, a new key is appended.
RECURSIVE DictUpdate(_, _)
DictUpdate(d, e) ==
    IF e = <<>> THEN d
    ELSE LET it == Head(e)
             d1 == IF DictHas(d, it.k)
                   THEN [i \in DOMAIN d |-> IF d[i].k = it.k THEN it ELSE d[i]]
                   ELSE Append(d, it)
         IN  DictUpdate(d1, Tail(e))

Item(name, value) == [k |-> name, v |-> value]

\* Faulty variant: PastFires with the window end included.
PastFires_inclusive_end(site, target_date, firms_df, has_daynight, lookback_days) ==
    LET past_start == target_date - timedelta_days(lookback_days)
        past_end == target_date
        filters ==
            [i \in DOMAIN firms_df |->
                /\ firms_df[i].acq_date >= past_start
                /\ firms_df[i].acq_date <= past_end
                /\ firms_df[i].confidence >= FIRMS_CONFIDENCE_THR
                /\ firms_df[i].frp >= FEATURE_FIRMS_MIN_FRP
                /\ (has_daynight => firms_df[i].daynight = "D")]
        past_fires == MaskSelect(firms_df, filters)
    IN  IF Len(past_fires) > 0
        THEN SelectSeq(past_fires,
                LAMBDA row : haversine_distance(site.lat, site.lon,
                                                row.latitude, row.longitude)
                             < FEATURE_RADIUS_KM)
        ELSE past_fires

\* Rows of firms_df in one lookback window of extract_firms_historical_features:
\* the time, severity and daylight mask, then the row-wise radius filter.
PastFires(site, target_date, firms_df, has_daynight, lookback_days) ==
    LET past_start == target_date - timedelta_days(lookback_days)
        past_end == target_date
        filters ==
            [i \in DOMAIN firms_df |->
                /\ firms_df[i].acq_date >= past_start
                /\ firms_df[i].acq_date < past_end
                /\ firms_df[i].confidence >= FIRMS_CONFIDENCE_THR
                /\ firms_df[i].frp >= FEATURE_FIRMS_MIN_FRP
                /\ (has_daynight => firms_df[i].daynight = "D")]
        past_fires == MaskSelect(firms_df, filters)
    IN  IF Len(past_fires) > 0
        THEN SelectSeq(past_fires,
                LAMBDA row : haversine_distance(site.lat, site.lon,
                                                row.latitude, row.longitude)
                             < FEATURE_RADIUS_KM)
        ELSE past_fires

extract_firms_historical_features(site, target_date, firms_df, has_daynight, lookback_days_short, lookback_days_long) ==
    LET past_fires_short == PastFires(site, target_date, firms_df, has_daynight,
                                      lookback_days_short)
        past_fires_long == PastFires(site, target_date, firms_df, has_daynight,
                                     lookback_days_long)
        brightness == Column(past_fires_short, "brightness")
        frp == Column(past_fires_short, "frp")
        acq == Column(past_fires_short, "acq_date")
        unique_days == Cardinality({DateOf(acq[i]) : i \in DOMAIN acq})
        most_recent == SeqMax(acq)
        days_diff == (target_date - most_recent) \div HoursPerDay
    IN  << Item("fires_7d_count", Len(past_fires_short)),
           Item("fires_30d_count", Len(past_fires_long)) >>
        \o
        (IF Len(past_fires_short) > 0
         THEN << Item("fire_max_brightness_7d", SeqMax(brightness)),
                 Item("fire_avg_brightness_7d", SeqMean(brightness)),
                 Item("fire_max_frp_7d", SeqMax(frp)),
                 Item("fire_avg_frp_7d", SeqMean(frp)),
                 Item("fires_persistent_days", unique_days),
                 Item("days_since_last_fire", Min2(days_diff, DAYS_SENTINEL)) >>
         ELSE << Item("fire_max_brightness_7d", 0),
                 Item("fire_avg_brightness_7d", <<0, 1>>),
                 Item("fire_max_frp_7d", 0),
                 Item("fire_avg_frp_7d", <<0, 1>>),
                 Item("fires_persistent_days", 0),
                 Item("days_since_last_fire", DAYS_SENTINEL) >>)

\* Faulty variant: PastQuakes without the magnitude filter.
PastQuakes_no_magnitude(site, target_date, usgs_df, lookback_days, min_magnitude) ==
    LET past_start == target_date - timedelta_days(lookback_days)
        past_end == target_date
        mask ==
            [i \in DOMAIN usgs_df |->
                /\ usgs_df[i].time >= past_start
                /\ usgs_df[i].time < past_end]
        past_quakes == MaskSelect(usgs_df, mask)
    IN  IF Len(past_quakes) > 0
        THEN SelectSeq(past_quakes,
                LAMBDA row : haversine_distance(site.lat, site.lon,
                                                row.latitude, row.longitude)
                             < FEATURE_RADIUS_KM)
        ELSE past_quakes

\* Rows of usgs_df in one lookback window of extract_usgs_historical_features.
PastQuakes(site, target_date, usgs_df, lookback_days, min_magnitude) ==
    LET past_start == target_date - timedelta_days(lookback_days)
        past_end == target_date
        mask ==
            [i \in DOMAIN usgs_df |->
                /\ usgs_df[i].time >= past_start
                /\ usgs_df[i].time < past_end
                /\ usgs_df[i].mag >= min_magnitude]
        past_quakes == MaskSelect(usgs_df, mask)
    IN  IF Len(past_quakes) > 0
        THEN SelectSeq(past_quakes,
                LAMBDA row : haversine_distance(site.lat, site.lon,
                                                row.latitude, row.longitude)
                             < FEATURE_RADIUS_KM)
        ELSE past_quakes

extract_usgs_historical_features(site, target_date, usgs_df, lookback_days_short, lookback_days_long, min_magnitude) ==
    LET past_quakes_short == PastQuakes(site, target_date, usgs_df,
                                        lookback_days_short, min_magnitude)
        past_quakes_long == PastQuakes(site, target_date, usgs_df,
                                       lookback_days_long, min_magnitude)
        n7 == Len(past_quakes_short)
        n30 == Len(past_quakes_long)
        mag == Column(past_quakes_long, "mag")
        most_recent == SeqMax(Column(past_quakes_long, "time"))
        days_diff == (target_date - most_recent) \div HoursPerDay
    IN  << Item("quakes_7d_count", n7),
           Item("quakes_30d_count", n30) >>
        \o
        (IF n30 > 0
         THEN << Item("quake_max_mag_30d", SeqMax(mag)),
                 Item("quake_avg_mag_30d", SeqMean(mag)),
                 Item("quakes_5plus_count",
                      Len(SelectSeq(past_quakes_long, LAMBDA r : r.mag >= MAG_5PLUS))),
                 Item("seismic_trend",
                      IF n30 > 0 THEN <<n7 * 43, n30 * 10>> ELSE <<0, 1>>),
                 Item("days_since_last_quake", Min2(days_diff, DAYS_SENTINEL)) >>
         ELSE << Item("quake_max_mag_30d", 0),
                 Item("quake_avg_mag_30d", <<0, 1>>),
                 Item("quakes_5plus_count", 0),
                 Item("seismic_trend", <<0, 1>>),
                 Item("days_since_last_quake", DAYS_SENTINEL) >>)

\* ------------------------------------------------------------ weather features

\* Fractions <<numerator, denominator>> with a positive denominator.
FracLt(a, n) == a[1] < n * a[2]

FracLe(a, n) == a[1] <= n * a[2]

FracGt(a, n) == a[1] > n * a[2]

FracGe(a, n) == a[1] >= n * a[2]

\* df.tail(days)
TailRows(df, days) == IF Len(df) <= days THEN df ELSE SubSeq(df, Len(df) - days + 1, Len(df))

RECURSIVE SeqMin(_)
SeqMin(s) == IF Len(s) = 1 THEN Head(s) ELSE LET m == SeqMin(Tail(s)) IN IF Head(s) < m THEN Head(s) ELSE m

\* openmeteo_client.extract_weather_features_from_df; precipitation in tenths
\* of a millimetre
extract_weather_features_from_df(df, days) ==
    LET df_subset == TailRows(df, days)
    IN  << Item("temp_mean", SeqMean(Column(df_subset, "temperature_2m_mean"))),
           Item("temp_max", SeqMax(Column(df_subset, "temperature_2m_max"))),
           Item("humidity_mean", SeqMean(Column(df_subset, "relative_humidity_2m_mean"))),
           Item("humidity_min", SeqMin(Column(df_subset, "relative_humidity_2m_min"))),
           Item("wind_max", SeqMax(Column(df_subset, "windspeed_10m_max"))),
           Item("rain_total", SeqSum(Column(df_subset, "precipitation_sum"))),
           Item("dry_days", Len(SelectSeq(df_subset, LAMBDA r : r.precipitation_sum < 10))) >>

\* The default values the two client functions return when they have no data
ClientDefaults(dry_days) ==
    << Item("temp_mean", <<15, 1>>), Item("temp_max", 20),
       Item("humidity_mean", <<60, 1>>), Item("humidity_min", 40),
       Item("wind_max", 5), Item("rain_total", 0), Item("dry_days", dry_days) >>

\* The frame the weather service answers with: one daily record per requested
\* day, or nothing. wx.kind is "ok", "none" (request failed, no daily data or
\* an empty frame), "bad_frame" (a frame the feature code cannot read) or
\* "client_raises" (the client call itself raises).
WeatherFrame(wx, first_day, ndays) ==
    [d \in 1..ndays |->
        [date |-> first_day + d - 1,
         temperature_2m_mean |-> wx.climate.temp,
         temperature_2m_max |-> wx.climate.temp + 5,
         relative_humidity_2m_mean |-> wx.climate.humidity_mean,
         relative_humidity_2m_min |-> wx.climate.humidity_min,
         windspeed_10m_max |-> 20,
         precipitation_sum |-> wx.climate.precipitation]]

\* Faulty variant: the historical range ending on the target day itself.
HistoricalRequest_through_target(target_date, lookback_days) ==
    LET target == target_date
        end_date == target
        start_date == end_date - (lookback_days - 1)
    IN  [source |-> "historical", start_date |-> start_date, end_date |-> end_date]

\* get_historical_weather_features: the date range it asks
\* get_historical_weather for; target_date is the '%Y-%m-%d' string, i.e. a
\* calendar day
HistoricalRequest(target_date, lookback_days) ==
    LET target == target_date
        end_date == target - 1
        start_date == end_date - (lookback_days - 1)
    IN  [source |-> "historical", start_date |-> start_date, end_date |-> end_date]

\* get_forecast_weather: the request carries a number of days and no date
ForecastRequest(days) == [source |-> "forecast", forecast_days |-> Min2(days, 16)]

\* openmeteo_client.get_historical_weather_features; target_date is the
\* '%Y-%m-%d' string, i.e. a calendar day
get_historical_weather_features(lat, lon, target_date, lookback_days, wx) ==
    LET start_date == HistoricalRequest(target_date, lookback_days).start_date
        end_date == HistoricalRequest(target_date, lookback_days).end_date
    IN  IF wx.kind = "ok"
        THEN extract_weather_features_from_df(
                 WeatherFrame(wx, start_date, end_date - start_date + 1), lookback_days)
        ELSE ClientDefaults(lookback_days)

\* openmeteo_client.get_forecast_weather_features; the service dates the
\* forecast from its own current day
get_forecast_weather_features(lat, lon, days, wx) ==
    IF wx.kind = "ok"
    THEN extract_weather_features_from_df(WeatherFrame(wx, wx.today, Min2(days, 16)), days)
    ELSE ClientDefaults(days)

\* The exchange extract_weather_features has with the weather service: the
\* request made and the dates of the daily records the features are computed
\* from (none when the fetch fails)
WeatherCall(site, target_date, use_forecast, wx) ==
    LET request == IF use_forecast THEN ForecastRequest(3)
                   ELSE HistoricalRequest(DateOf(target_date), 7)
        frame == IF use_forecast THEN WeatherFrame(wx, wx.today, request.forecast_days)
                 ELSE WeatherFrame(wx, request.start_date,
                                   request.end_date - request.start_date + 1)
    IN  [request |-> request,
         dates |-> IF wx.kind = "ok"
                   THEN Column(TailRows(frame, IF use_forecast THEN 3 ELSE 7), "date")
                   ELSE <<>>]

\* sensor_features.extract_weather_features
extract_weather_features(site, target_date, use_forecast, wx) ==
    IF wx.kind = "client_raises"
    THEN << Item("temp_mean", <<15, 1>>), Item("temp_max", 20),
            Item("humidity_mean", <<60, 1>>), Item("humidity_min", 40),
            Item("wind_max", 15), Item("rain_total", 0), Item("dry_days", 2) >>
    ELSE IF use_forecast
         THEN get_forecast_weather_features(site.lat, site.lon, 3, wx)
         ELSE get_historical_weather_features(site.lat, site.lon, DateOf(target_date), 7, wx)

\* -------------------------------------------------- temporal / geographic features

\* Timestamp.month, the epoch being 1 January of a 365-day year
MonthOf(t) ==
    LET doy == DateOf(t) % 365
    IN  IF doy < 31 THEN 1 ELSE IF doy < 59 THEN 2 ELSE IF doy < 90 THEN 3
        ELSE IF doy < 120 THEN 4 ELSE IF doy < 151 THEN 5 ELSE IF doy < 181 THEN 6
        ELSE IF doy < 212 THEN 7 ELSE IF doy < 243 THEN 8 ELSE IF doy < 273 THEN 9
        ELSE IF doy < 304 THEN 10 ELSE IF doy < 334 THEN 11 ELSE 12

extract_temporal_geo_features(site, target_date) ==
    LET month == MonthOf(target_date)
        season == IF month \in { 12, 1, 2 } THEN 0
                  ELSE IF month \in { 3, 4, 5 } THEN 1
                  ELSE IF month \in { 6, 7, 8 } THEN 2
                  ELSE 3
    IN  << Item("latitude", site.lat), Item("longitude", site.lon),
           Item("month", month), Item("season", season) >>

\* ------------------------------------------------------- master feature extractor

\* Faulty variant: extract_all_features that skips the weather block in forecast mode.
extract_all_features_no_forecast_weather(site, target_date, df_firms, has_daynight, df_usgs, model_type, use_historical_weather, wx) ==
    LET f1 == IF model_type = "fire"
              THEN DictUpdate(<<>>, extract_firms_historical_features(
                                        site, target_date, df_firms, has_daynight,
                                        LOOKBACK_DAYS_SHORT, LOOKBACK_DAYS_LONG))
              ELSE <<>>
        f2 == IF model_type = "quake"
              THEN DictUpdate(f1, extract_usgs_historical_features(
                                        site, target_date, df_usgs,
                                        LOOKBACK_DAYS_SHORT, LOOKBACK_DAYS_LONG,
                                        FEATURE_MIN_MAGNITUDE))
              ELSE f1
        f3 == IF model_type = "fire" /\ use_historical_weather
              THEN DictUpdate(f2, extract_weather_features(
                                        site, target_date, ~use_historical_weather, wx))
              ELSE f2
    IN  DictUpdate(f3, extract_temporal_geo_features(site, target_date))

extract_all_features(site, target_date, df_firms, has_daynight, df_usgs, model_type, use_historical_weather, wx) ==
    LET f1 == IF model_type = "fire"
              THEN DictUpdate(<<>>, extract_firms_historical_features(
                                        site, target_date, df_firms, has_daynight,
                                        LOOKBACK_DAYS_SHORT, LOOKBACK_DAYS_LONG))
              ELSE <<>>
        f2 == IF model_type = "quake"
              THEN DictUpdate(f1, extract_usgs_historical_features(
                                        site, target_date, df_usgs,
                                        LOOKBACK_DAYS_SHORT, LOOKBACK_DAYS_LONG,
                                        FEATURE_MIN_MAGNITUDE))
              ELSE f1
        f3 == IF model_type = "fire"
              THEN DictUpdate(f2, extract_weather_features(
                                        site, target_date, ~use_historical_weather, wx))
              ELSE f2
    IN  DictUpdate(f3, extract_temporal_geo_features(site, target_date))

\* ------------------------------------------------------------- exact arithmetic

RECURSIVE GCD(_, _)
GCD(a, b) == IF b = 0 THEN a ELSE GCD(b, a % b)

\* A non-negative fraction in lowest terms
Frac(n, d) == LET g == GCD(n, d) IN <<n \div g, d \div g>>

FracMul(a, b) == Frac(a[1] * b[1], a[2] * b[2])

\* 1 - a, for a in [0, 1]
FracOneMinus(a) == Frac(a[2] - a[1], a[2])

FracMin(a, b) == IF a[1] * b[2] <= b[1] * a[2] THEN a ELSE b

FracEq(a, b) == a[1] * b[2] = b[1] * a[2]

FracLeq(a, b) == a[1] * b[2] <= b[1] * a[2]

\* np.prod
RECURSIVE FracProd(_)
FracProd(s) == IF s = <<>> THEN <<1, 1>> ELSE FracMul(Head(s), FracProd(Tail(s)))

\* dict.get(name, default)
DictGetDefault(d, name, default) == IF DictHas(d, name) THEN DictGet(d, name) ELSE default

\* ------------------------------------------------------------ dataset and training

\* build_dataset, the body of its loop: the sample of one row of labels_df,
\* a dict in column order
build_sample(site, target_date, df_firms, has_daynight, df_usgs, model_type, wx) ==
    LET fire == build_fire_label(site, target_date, df_firms, has_daynight,
                                 FIRMS_CONFIDENCE_THRESHOLD, FIRMS_MIN_FRP,
                                 FIRMS_MIN_DETECTIONS, LABEL_RADIUS_KM)
        quake == build_quake_label(site, target_date, df_usgs, USGS_MIN_MAGNITUDE,
                                   USGS_MIN_EVENTS, USGS_RADIUS_KM)
        row_features == extract_all_features(site, target_date, df_firms, has_daynight,
                                             df_usgs, model_type, TRUE, wx)
        sample == DictUpdate(<< Item("site_name", site.name),
                                Item("target_date", target_date),
                                Item("lat", site.lat), Item("lon", site.lon) >>,
                             row_features)
    IN  IF model_type = "fire"
        THEN DictUpdate(sample,
                 << Item("label", fire.label),
                    Item("label_meta_detections", fire.metadata.num_detections),
                    Item("label_meta_max_brightness", fire.metadata.max_brightness) >>)
        ELSE DictUpdate(sample,
                 << Item("label", quake.label),
                    Item("label_meta_events", quake.metadata.num_events),
                    Item("label_meta_max_mag", quake.metadata.max_magnitude) >>)

\* Faulty variant: build_dataset pairing the i-th site with the i-th date.
build_dataset_zip(sites_df, target_dates, df_firms, has_daynight, df_usgs, model_type, wx_of) ==
    [k \in 1..Min2(Len(sites_df), Len(target_dates)) |->
        build_sample(sites_df[k], target_dates[k], df_firms, has_daynight, df_usgs,
                     model_type, wx_of[k])]

\* Faulty variant: build_dataset leaving out the samples whose weather fetch
\* failed.
build_dataset_skip_failed(sites_df, target_dates, df_firms, has_daynight, df_usgs, model_type, wx_of) ==
    LET nd == Len(target_dates)
        total == Len(sites_df) * nd
        kept == SelectSeq([k \in 1..total |-> k],
                          LAMBDA k : model_type # "fire" \/ wx_of[k].kind = "ok")
    IN  [n \in 1..Len(kept) |->
            build_sample(sites_df[((kept[n] - 1) \div nd) + 1],
                         target_dates[((kept[n] - 1) % nd) + 1],
                         df_firms, has_daynight, df_usgs, model_type, wx_of[kept[n]])]

\* build_sensor_dataset.build_dataset: one sample per row of the labels frame,
\* which generate_labels_for_dataset fills site by site and, for each site,
\* date by date; wx_of[k] is how the weather request of the k-th sample ends
build_dataset(sites_df, target_dates, df_firms, has_daynight, df_usgs, model_type, wx_of) ==
    LET nd == Len(target_dates)
        total == Len(sites_df) * nd
    IN  [k \in 1..total |->
            build_sample(sites_df[((k - 1) \div nd) + 1], target_dates[((k - 1) % nd) + 1],
                         df_firms, has_daynight, df_usgs, model_type, wx_of[k])]

\* Faulty variant: time_based_split with the split date itself in train.
time_based_split_inclusive(df, split_ts) ==
    [train_df |-> SelectSeq(df, LAMBDA row : DictGet(row, "target_date") <= split_ts),
     test_df |-> SelectSeq(df, LAMBDA row : DictGet(row, "target_date") >= split_ts)]

\* build_sensor_dataset.time_based_split
time_based_split(df, split_ts) ==
    [train_df |-> SelectSeq(df, LAMBDA row : DictGet(row, "target_date") < split_ts),
     test_df |-> SelectSeq(df, LAMBDA row : DictGet(row, "target_date") >= split_ts)]

\* Faulty variant: the loop condition of generate_sample_dates with the
\* end date included.
sample_dates_loop_inclusive(current_date, end_date) ==
    current_date <= end_date

\* generate_sample_dates' loop condition: while current < end
sample_dates_loop(current_date, end_date) ==
    current_date < end_date

\* generate_sample_dates' step: current += timedelta(days=frequency_days)
sample_dates_advance(current_date, frequency_days) ==
    current_date + frequency_days * HoursPerDay

\* build_sensor_dataset.generate_sample_dates: start, start + frequency, ...
\* while before end
generate_sample_dates(start_date, end_date, frequency_days) ==
    LET step == frequency_days * HoursPerDay
        n == IF start_date < end_date THEN ((end_date - start_date - 1) \div step) + 1 ELSE 0
    IN  [i \in 1..n |-> start_date + (i - 1) * step]

\* build_sensor_dataset.load_combined_firms_data: the files that exist,
\* concatenated; raises when none does
load_combined_firms_data(files) ==
    LET rows_of(f) == IF f.exists THEN f.rows ELSE <<>>
        any == files.firms_2024.exists \/ files.firms_2025_archive.exists
               \/ files.firms_2025_nrt.exists
    IN  IF ~any
        THEN [raised |-> TRUE, error |-> "FileNotFoundError"]
        ELSE [raised |-> FALSE,
              df |-> rows_of(files.firms_2024) \o rows_of(files.firms_2025_archive)
                     \o rows_of(files.firms_2025_nrt)]

\* build_sensor_dataset.load_usgs_data_cached: the historical file, else the
\* cache file, else raises (the files have the required columns)
load_usgs_data_cached(files) ==
    IF files.usgs_historical.exists
    THEN [raised |-> FALSE, df |-> files.usgs_historical.rows]
    ELSE IF files.usgs_cache.exists
         THEN [raised |-> FALSE, df |-> files.usgs_cache.rows]
         ELSE [raised |-> TRUE, error |-> "FileNotFoundError"]

\* build_sensor_dataset.main, step 2: the FIRMS loader's exception leaves
\* main; the USGS loader's FileNotFoundError is caught and replaced by an
\* empty frame
main_load_data(files) ==
    LET firms == load_combined_firms_data(files)
        usgs == load_usgs_data_cached(files)
    IN  IF firms.raised THEN firms
        ELSE [raised |-> FALSE, firms_df |-> firms.df,
              usgs_df |-> IF usgs.raised THEN <<>> ELSE usgs.df]

\* sklearn's train_test_split with test_size 0.20: the number of test rows
TestRows(n) == (n * TEST_SIZE_PERCENT + 99) \div 100

\* sklearn's train_test_split with stratify: whether it raises ValueError (an
\* empty train set, a class of one member, or fewer test or train rows than
\* classes)
SplitRaises(df) ==
    LET n == Len(df)
        labels == { DictGet(df[i], "label") : i \in DOMAIN df }
        members(l) == Cardinality({ i \in DOMAIN df : DictGet(df[i], "label") = l })
    IN  \/ n - TestRows(n) < 1
        \/ \E l \in labels : members(l) < 2
        \/ TestRows(n) < Cardinality(labels)
        \/ n - TestRows(n) < Cardinality(labels)

\* build_sensor_dataset.stratified_random_split, test_idx being the rows the
\* library draws for the test set
stratified_random_split(df, test_idx) ==
    LET idx == [i \in DOMAIN df |-> i]
        train_idx == SelectSeq(idx, LAMBDA i : i \notin test_idx)
        test_rows == SelectSeq(idx, LAMBDA i : i \in test_idx)
    IN  [train_df |-> [k \in DOMAIN train_idx |-> df[train_idx[k]]],
         test_df |-> [k \in DOMAIN test_rows |-> df[test_rows[k]]]]

meta_cols ==
    { "site_name", "target_date", "label", "lat", "lon",
      "label_meta_detections", "label_meta_max_brightness",
      "label_meta_events", "label_meta_max_mag" }

\* train_sensor_model.load_train_test_data: feature_cols
load_train_test_data(train_df) ==
    SelectSeq(DictKeys(train_df[1]), LAMBDA c : c \notin meta_cols)

\* ------------------------------------------------------------------ prediction

\* Faulty variant: the physics-based adjustments without the cap at 1.0.
physics_adjustments_uncapped(fire_model_proba, temp_mean, humidity_mean, humidity_min) ==
    LET cooled ==
            IF FracLe(temp_mean, 0) /\ FracGt(humidity_mean, 70)
            THEN FracMul(fire_model_proba, <<1, 100>>)
            ELSE IF FracLe(temp_mean, 0) THEN FracMul(fire_model_proba, <<5, 100>>)
            ELSE IF FracLt(temp_mean, 5) THEN FracMul(fire_model_proba, <<20, 100>>)
            ELSE IF FracLt(temp_mean, 10) THEN FracMul(fire_model_proba, <<50, 100>>)
            ELSE IF FracGe(temp_mean, 10) /\ FracLt(temp_mean, 25) /\ humidity_min > 40
                 THEN FracMul(fire_model_proba, <<85, 100>>)
            ELSE fire_model_proba
    IN  IF FracGt(temp_mean, 35) /\ humidity_min < 20
        THEN FracMul(cooled, <<15, 10>>)
        ELSE IF FracGt(temp_mean, 30) /\ humidity_min < 30
             THEN FracMul(cooled, <<13, 10>>)
        ELSE cooled

\* predict_dual_risk, the physics-based adjustments of the fire probability:
\* one reduction at most, then one capped increase at most
physics_adjustments(fire_model_proba, temp_mean, humidity_mean, humidity_min) ==
    LET cooled ==
            IF FracLe(temp_mean, 0) /\ FracGt(humidity_mean, 70)
            THEN FracMul(fire_model_proba, <<1, 100>>)
            ELSE IF FracLe(temp_mean, 0) THEN FracMul(fire_model_proba, <<5, 100>>)
            ELSE IF FracLt(temp_mean, 5) THEN FracMul(fire_model_proba, <<20, 100>>)
            ELSE IF FracLt(temp_mean, 10) THEN FracMul(fire_model_proba, <<50, 100>>)
            ELSE IF FracGe(temp_mean, 10) /\ FracLt(temp_mean, 25) /\ humidity_min > 40
                 THEN FracMul(fire_model_proba, <<85, 100>>)
            ELSE fire_model_proba
    IN  IF FracGt(temp_mean, 35) /\ humidity_min < 20
        THEN FracMin(FracMul(cooled, <<15, 10>>), <<1, 1>>)
        ELSE IF FracGt(temp_mean, 30) /\ humidity_min < 30
             THEN FracMin(FracMul(cooled, <<13, 10>>), <<1, 1>>)
        ELSE cooled

\* Faulty variant: the combined probability taken as the larger of the two.
combined_proba_max(fire_proba, quake_proba) == IF FracLeq(fire_proba, quake_proba) THEN quake_proba ELSE fire_proba

\* predict_dual_risk: 1 - (1 - fire_proba) * (1 - quake_proba)
combined_proba_of(fire_proba, quake_proba) == FracOneMinus(FracMul(FracOneMinus(fire_proba), FracOneMinus(quake_proba)))

\* run_sensor_forecast.predict_dual_risk from its two calls of
\* extract_all_features on: fire_dict and quake_dict are what they returned,
\* fire_model_proba and quake_model_proba what the two classifiers answer for
\* the feature vectors
predict_dual_risk(site, fire_dict, quake_dict, fire_model_proba, quake_model_proba, fire_features, quake_features) ==
    LET fire_features_dict == fire_dict
        quake_features_dict == quake_dict
        temp_mean == DictGetDefault(fire_features_dict, "temp_mean", <<15, 1>>)
        humidity_mean == DictGetDefault(fire_features_dict, "humidity_mean", <<60, 1>>)
        humidity_min == DictGetDefault(fire_features_dict, "humidity_min", 50)
        fire_proba == physics_adjustments(fire_model_proba, temp_mean, humidity_mean, humidity_min)
        quake_proba == quake_model_proba
        combined_proba == combined_proba_of(fire_proba, quake_proba)
    IN  IF \E i \in DOMAIN fire_features : ~DictHas(fire_features_dict, fire_features[i])
        THEN [error |-> "KeyError"]
        ELSE IF \E i \in DOMAIN quake_features : ~DictHas(quake_features_dict, quake_features[i])
        THEN [error |-> "KeyError"]
        ELSE [site_name |-> site.name, lat |-> site.lat, lon |-> site.lon,
              fire_probability |-> fire_proba,
              fire_risk_score |-> FracMul(fire_proba, <<100, 1>>),
              quake_probability |-> quake_proba,
              quake_risk_score |-> FracMul(quake_proba, <<100, 1>>),
              combined_probability |-> combined_proba,
              combined_risk_score |-> FracMul(combined_proba, <<100, 1>>)]

\* ---------------------------------------------------------------- geometries

\* JSON values inside a geometry: numbers, lists, null
Num(n) == [kind |-> "num", v |-> n]

List(items) == [kind |-> "list", items |-> items]

Null == [kind |-> "null"]

\* Python truthiness of a JSON value
Truthy(x) ==
    CASE x.kind = "num" -> x.v # 0
      [] x.kind = "list" -> x.items # <<>>
      [] OTHER -> FALSE

\* lon, lat = point[0], point[1]; coords.append((lat, lon)): IndexError or
\* TypeError when point is no list of two or more
AppendPoint(st, point) ==
    IF st.failed THEN st
    ELSE IF point.kind = "list" /\ Len(point.items) >= 2
         THEN [st EXCEPT !.coords = Append(@, <<point.items[2], point.items[1]>>)]
         ELSE [st EXCEPT !.failed = TRUE]

\* The nested for loops over a value "depth" levels above the points, items
\* 1..i of each list in turn, stopping at the first exception
RECURSIVE WalkItems(_, _, _, _)
WalkItems(depth, st, x, i) ==
    IF st.failed THEN st
    ELSE IF depth = 0 THEN AppendPoint(st, x)
    ELSE IF x.kind # "list" THEN [st EXCEPT !.failed = TRUE]
    ELSE IF i = 0 THEN st
    ELSE LET before == WalkItems(depth, st, x, i - 1)
             item == x.items[i]
         IN  IF before.failed THEN before
             ELSE IF depth = 1 THEN AppendPoint(before, item)
             ELSE IF item.kind # "list" THEN [before EXCEPT !.failed = TRUE]
             ELSE WalkItems(depth - 1, before, item, Len(item.items))

\* The loop nesting of each supported geometry type, 0 for a Point
NestingOf(geom_type) ==
    CASE geom_type = "Point" -> 0
      [] geom_type \in { "MultiPoint", "LineString" } -> 1
      [] geom_type \in { "MultiLineString", "Polygon" } -> 2
      [] geom_type = "MultiPolygon" -> 3
      [] OTHER -> -1

\* Faulty variant: extract_coordinates_from_geometry treating every unknown
\* type as a LineString.
extract_coordinates_from_geometry_lenient(geometry) ==
    IF geometry.kind # "dict"
    THEN [raised |-> TRUE, error |-> "AttributeError"]
    ELSE LET geom_type == geometry.type
             coordinates == geometry.coordinates
             level == IF NestingOf(geom_type) < 0 THEN 1 ELSE NestingOf(geom_type)
             start == [coords |-> <<>>, failed |-> FALSE]
         IN  IF ~Truthy(coordinates) THEN [raised |-> FALSE, coords |-> <<>>]
             ELSE [raised |-> FALSE,
                   coords |-> WalkItems(level, start, coordinates,
                                        IF coordinates.kind = "list"
                                        THEN Len(coordinates.items) ELSE 0).coords]

\* geo_utils.extract_coordinates_from_geometry; geometry.type is "" and
\* geometry.coordinates an empty list when the key is missing. A geometry
\* that is no dict has no get method.
extract_coordinates_from_geometry(geometry) ==
    IF geometry.kind # "dict"
    THEN [raised |-> TRUE, error |-> "AttributeError"]
    ELSE LET geom_type == geometry.type
             coordinates == geometry.coordinates
             start == [coords |-> <<>>, failed |-> FALSE]
         IN  IF ~Truthy(coordinates) THEN [raised |-> FALSE, coords |-> <<>>]
             ELSE IF NestingOf(geom_type) < 0 THEN [raised |-> FALSE, coords |-> <<>>]
             ELSE [raised |-> FALSE,
                   coords |-> WalkItems(NestingOf(geom_type), start, coordinates,
                                        IF coordinates.kind = "list"
                                        THEN Len(coordinates.items) ELSE 0).coords]

\* ---------------------------------------------------------------------- routes

\* Risk scores are fractions of a percent scale, 0 to 100.
RoutePoint(order, name, lat, lon) ==
    [order |-> order, name |-> name, lat |-> lat, lon |-> lon,
     fire_risk |-> <<0, 1>>, quake_risk |-> <<0, 1>>, flood_risk |-> <<0, 1>>,
     combined_risk |-> <<0, 1>>, distance_from_prev |-> 0,
     accumulated_risk |-> <<0, 1>>]

Route(route_id) ==
    [route_id |-> route_id, points |-> <<>>, total_distance |-> 0,
     aggregated_fire_risk |-> <<0, 1>>, aggregated_quake_risk |-> <<0, 1>>,
     aggregated_combined_risk |-> <<0, 1>>, dominant_risk_category |-> ""]

\* list.sort(key=lambda p: p.order): a stable sort
RECURSIVE SortByOrder(_)
SortByOrder(points) ==
    IF points = <<>> THEN <<>>
    ELSE LET n == Len(points)
             last == points[n]
             front == SortByOrder(SubSeq(points, 1, n - 1))
             keep == SelectSeq(front, LAMBDA q : q.order <= last.order)
             after == SelectSeq(front, LAMBDA q : q.order > last.order)
         IN  keep \o <<last>> \o after

\* Faulty variant: add_point without the sort.
add_point_append_only(self, point) ==
    [self EXCEPT !.points = Append(self.points, point)]

\* Route.add_point
add_point(self, point) ==
    [self EXCEPT !.points = SortByOrder(Append(self.points, point))]

\* route_risk.calculate_route_distances
calculate_route_distances(r) ==
    LET dist(i) == IF i = 1 THEN 0
                   ELSE haversine_distance(r.points[i - 1].lat, r.points[i - 1].lon,
                                           r.points[i].lat, r.points[i].lon)
    IN  [r EXCEPT !.points = [i \in DOMAIN r.points |->
                                 [r.points[i] EXCEPT !.distance_from_prev = dist(i)]],
                  !.total_distance = SeqSum([i \in DOMAIN r.points |-> dist(i)])]

\* Faulty variant: the product taken without the last waypoint.
AggregatedRisk_without_last(probs) ==
    LET front == SubSeq(probs, 1, Len(probs) - 1)
    IN  FracMul(FracOneMinus(FracProd([i \in DOMAIN front |-> FracOneMinus(front[i])])), <<100, 1>>)

\* (1 - np.prod([1 - p for p in probs])) * 100
AggregatedRisk(probs) ==
    FracMul(FracOneMinus(FracProd([i \in DOMAIN probs |-> FracOneMinus(probs[i])])), <<100, 1>>)

\* Faulty variant: the running value after k waypoints, restarted at every waypoint.
RECURSIVE Cumulative_restart(_, _)
Cumulative_restart(points, k) ==
    IF k = 0 THEN <<0, 1>>
    ELSE LET prob == FracMul(points[k].combined_risk, <<1, 100>>)
         IN  FracOneMinus(FracMul(FracOneMinus(<<0, 1>>), FracOneMinus(prob)))

\* The loop variable cumulative after the first k waypoints
RECURSIVE Cumulative(_, _)
Cumulative(points, k) ==
    IF k = 0 THEN <<0, 1>>
    ELSE LET prob == FracMul(points[k].combined_risk, <<1, 100>>)
         IN  FracOneMinus(FracMul(FracOneMinus(Cumulative(points, k - 1)), FracOneMinus(prob)))

\* Faulty variant: the aggregated combined risk taken as the largest waypoint risk.
calculate_accumulated_risk_max(r) ==
    LET fire_probs == [i \in DOMAIN r.points |-> FracMul(r.points[i].fire_risk, <<1, 100>>)]
        quake_probs == [i \in DOMAIN r.points |-> FracMul(r.points[i].quake_risk, <<1, 100>>)]
        combined_probs == [i \in DOMAIN r.points |-> FracMul(r.points[i].combined_risk, <<1, 100>>)]
        aggregated_fire_risk == AggregatedRisk(fire_probs)
        aggregated_quake_risk == AggregatedRisk(quake_probs)
        largest == CHOOSE m \in { <<0, 1>> } \cup { combined_probs[i] : i \in DOMAIN combined_probs } :
                       \A i \in DOMAIN combined_probs : FracLeq(combined_probs[i], m)
    IN  [r EXCEPT !.aggregated_fire_risk = aggregated_fire_risk,
                  !.aggregated_quake_risk = aggregated_quake_risk,
                  !.aggregated_combined_risk = FracMul(largest, <<100, 1>>),
                  !.dominant_risk_category =
                        IF ~FracLeq(aggregated_fire_risk, aggregated_quake_risk)
                        THEN "Feuer" ELSE "Erdbeben",
                  !.points = [i \in DOMAIN r.points |->
                                 [r.points[i] EXCEPT !.accumulated_risk =
                                     FracMul(Cumulative(r.points, i), <<100, 1>>)]]]

\* Faulty variant: a tie between the hazards reported as fire.
calculate_accumulated_risk_tie_fire(r) ==
    LET fire_probs == [i \in DOMAIN r.points |-> FracMul(r.points[i].fire_risk, <<1, 100>>)]
        quake_probs == [i \in DOMAIN r.points |-> FracMul(r.points[i].quake_risk, <<1, 100>>)]
        combined_probs == [i \in DOMAIN r.points |-> FracMul(r.points[i].combined_risk, <<1, 100>>)]
        aggregated_fire_risk == AggregatedRisk(fire_probs)
        aggregated_quake_risk == AggregatedRisk(quake_probs)
    IN  [r EXCEPT !.aggregated_fire_risk = aggregated_fire_risk,
                  !.aggregated_quake_risk = aggregated_quake_risk,
                  !.aggregated_combined_risk = AggregatedRisk(combined_probs),
                  !.dominant_risk_category =
                        IF FracLeq(aggregated_quake_risk, aggregated_fire_risk)
                        THEN "Feuer" ELSE "Erdbeben",
                  !.points = [i \in DOMAIN r.points |->
                                 [r.points[i] EXCEPT !.accumulated_risk =
                                     FracMul(Cumulative(r.points, i), <<100, 1>>)]]]

\* route_risk.calculate_accumulated_risk
calculate_accumulated_risk(r) ==
    LET fire_probs == [i \in DOMAIN r.points |-> FracMul(r.points[i].fire_risk, <<1, 100>>)]
        quake_probs == [i \in DOMAIN r.points |-> FracMul(r.points[i].quake_risk, <<1, 100>>)]
        combined_probs == [i \in DOMAIN r.points |-> FracMul(r.points[i].combined_risk, <<1, 100>>)]
        aggregated_fire_risk == AggregatedRisk(fire_probs)
        aggregated_quake_risk == AggregatedRisk(quake_probs)
    IN  [r EXCEPT !.aggregated_fire_risk = aggregated_fire_risk,
                  !.aggregated_quake_risk = aggregated_quake_risk,
                  !.aggregated_combined_risk = AggregatedRisk(combined_probs),
                  !.dominant_risk_category =
                        IF ~FracLeq(aggregated_fire_risk, aggregated_quake_risk)
                        THEN "Feuer" ELSE "Erdbeben",
                  !.points = [i \in DOMAIN r.points |->
                                 [r.points[i] EXCEPT !.accumulated_risk =
                                     FracMul(Cumulative(r.points, i), <<100, 1>>)]]]

\* str.lower()
Lower(name) == CASE name = "A" -> "a" [] name = "B" -> "b" [] OTHER -> name

\* The nearest row of predictions_df: the first row at the smallest distance,
\* 0 when the frame is empty
NearestRow(point, predictions_df) ==
    IF predictions_df = <<>> THEN 0
    ELSE LET d(i) == haversine_distance(point.lat, point.lon,
                                        predictions_df[i].lat, predictions_df[i].lon)
         IN  CHOOSE i \in DOMAIN predictions_df :
                 /\ \A j \in DOMAIN predictions_df : d(i) <= d(j)
                 /\ \A j \in 1..(i - 1) : d(j) > d(i)

WithRisks(point, row) ==
    [point EXCEPT !.fire_risk = row.fire_risk_score,
                  !.quake_risk = row.quake_risk_score,
                  !.combined_risk = row.combined_risk_score,
                  !.flood_risk = <<0, 1>>]

\* route_risk.assign_risks_to_route
assign_risks_to_route(r, predictions_df) ==
    LET assign(point) ==
            LET match == SelectSeq(predictions_df,
                                   LAMBDA row : Lower(row.site_name) = Lower(point.name))
                best == NearestRow(point, predictions_df)
            IN  IF match # <<>> THEN WithRisks(point, match[1])
                ELSE IF best # 0
                        /\ haversine_distance(point.lat, point.lon,
                                              predictions_df[best].lat,
                                              predictions_df[best].lon) < 100
                     THEN WithRisks(point, predictions_df[best])
                     ELSE point
    IN  [r EXCEPT !.points = [i \in DOMAIN r.points |-> assign(r.points[i])]]

\* --------------------------------------------------------------------- state

VARIABLES
    site,                \* the sample's site: name, lat, lon
    target_date,         \* the sample's target timestamp
    firms_df,            \* FIRMS detections, a sequence of rows
    firms_has_daynight,  \* whether firms_df has a 'daynight' column
    usgs_df,             \* USGS earthquakes, a sequence of rows
    cfg,                 \* the label builders' keyword arguments and module options
    pc,                  \* position in the sample's pipeline
    fire_label,          \* what build_fire_label returned
    fire_label_rows,     \* its local future_fires at return
    quake_label,         \* what build_quake_label returned
    quake_label_rows,    \* its local future_quakes at return
    features,            \* what the historical feature extractor returned
    past_rows_short,     \* its local past_*_short at return
    past_rows_long,      \* its local past_*_long at return
    weather,             \* what the weather service did on the last call
    weather_call,        \* the last request to it and the dates of the records used
    weather_fallbacks,   \* the feature dicts returned so far after a failed fetch
    dataset_df,          \* the dataset build_dataset returned
    feature_names,       \* per model type, the feature names saved by training
    fire_features_dict,  \* predict_dual_risk's local fire_features_dict
    quake_features_dict, \* predict_dual_risk's local quake_features_dict
    prediction,          \* what predict_dual_risk returned, or the error it raised
    route,               \* a Route object
    predictions_df,      \* the predictions frame the route is processed with
    disk,                \* the event source files: absent, or their rows
    sites_df,            \* the site registry, a sequence of sites
    target_dates,        \* the target dates given to build_dataset
    sample_dates,        \* main's fire_dates and quake_dates
    wx_of,               \* per sample, how its weather request ends
    fire_dataset,        \* main's local fire_dataset
    quake_dataset,       \* main's local quake_dataset
    output_files,        \* the files written to OUTPUT_DIR, name and frame
    exit_status,         \* "running", then "ok" or "error"
    split_ts,            \* the split date given to time_based_split
    train_df,            \* what time_based_split returned: train
    test_df,             \* what time_based_split returned: test
    event_geometry,      \* the geometry given to extract_coordinates_from_geometry
    extracted,           \* what it returned, or the error it raised
    date_args,           \* generate_sample_dates' start_date, end_date, frequency_days
    current,             \* its local current
    dates                \* its local dates

sampleVars == <<site, target_date, firms_df, firms_has_daynight, usgs_df, cfg>>

resultVars == <<fire_label, fire_label_rows, quake_label, quake_label_rows,
                features, past_rows_short, past_rows_long>>

modelVars == <<weather, weather_call, weather_fallbacks, dataset_df, feature_names, fire_features_dict,
               quake_features_dict, prediction>>

routeVars == <<route, predictions_df>>

buildVars == <<disk, sites_df, target_dates, sample_dates, wx_of, fire_dataset,
               quake_dataset, output_files, exit_status, split_ts, train_df, test_df>>

utilVars == <<event_geometry, extracted, date_args, current, dates>>

vars == <<sampleVars, pc, resultVars, modelVars, routeVars, buildVars, utilVars>>

\* Absent and present files
NoFile == [exists |-> FALSE]

FileOf(rows) == [exists |-> TRUE, rows |-> rows]

\* The dataset builder has not been started.
BuildIdle ==
    /\ disk = [firms_2024 |-> NoFile, firms_2025_archive |-> NoFile,
               firms_2025_nrt |-> NoFile, usgs_historical |-> NoFile,
               usgs_cache |-> NoFile]
    /\ sites_df = <<>>
    /\ target_dates = <<>>
    /\ sample_dates = [fire |-> <<>>, quake |-> <<>>]
    /\ wx_of = <<>>
    /\ fire_dataset = <<>>
    /\ quake_dataset = <<>>
    /\ output_files = <<>>
    /\ exit_status = "running"
    /\ split_ts = 0
    /\ train_df = <<>>
    /\ test_df = <<>>

\* No geometry has been read and no sample dates are being generated.
UtilIdle ==
    /\ event_geometry = [kind |-> "dict", type |-> "", coordinates |-> List(<<>>)]
    /\ extracted = NoResult
    /\ date_args = [start_date |-> 0, end_date |-> 0, frequency_days |-> SAMPLE_FREQUENCY_DAYS]
    /\ current = 0
    /\ dates = <<>>

\* ---------------------------------------------------------------- input sets

Sites == { [name |-> "A", lat |-> 0, lon |-> 0],
           [name |-> "B", lat |-> 1000, lon |-> 0] }

\* Target timestamps: a midnight and a timestamp within a day.
Targets == { 1440, 1453 }

\* Event times relative to the target: one hour either side of every window
\* boundary (30 days and 7 days back, the target, 72 hours ahead).
TimeOffsets == { -721, -720, -169, -168, -1, 0, 71, 72 }

CoreOffsets == { -200, -1, 0, 71 }

\* Event positions relative to the site, north or south, in km.
FireOffsetsKm == { 40, -50, 60, 100 }

QuakeOffsetsKm == { 40, -50, 60, 149, 150 }

CoreOffsetsKm == { 40, 60 }

\* confidence, frp, brightness, daynight
FireQualities ==
    { <<80, 50, 300, "D">>, <<70, 30, 350, "D">>,
      <<69, 50, 400, "D">>, <<80, 29, 400, "D">>, <<80, 50, 400, "N">> }

CoreFireQualities == { <<80, 50, 300, "D">>, <<70, 30, 350, "D">> }

Magnitudes == { 19, 20, 24, 25, 30, 40, 50 }

CoreMagnitudes == { 30, 50 }

FireRow(s, t, off, km, q, has_dn) ==
    [latitude |-> s.lat + km, longitude |-> s.lon, acq_date |-> t + off,
     confidence |-> q[1], frp |-> q[2], brightness |-> q[3],
     daynight |-> IF has_dn THEN q[4] ELSE "NA"]

QuakeRow(s, t, off, km, m) ==
    [latitude |-> s.lat + km, longitude |-> s.lon, time |-> t + off, mag |-> m]

\* A store of one row takes it from the full grid; longer stores take their
\* rows from the core grid.
FireStores(s, t, has_dn) ==
    LET full == { FireRow(s, t, off, km, q, has_dn) :
                    off \in TimeOffsets, km \in FireOffsetsKm, q \in FireQualities }
        core == { FireRow(s, t, off, km, q, has_dn) :
                    off \in CoreOffsets, km \in CoreOffsetsKm, q \in CoreFireQualities }
    IN  { <<>> } \cup { <<r>> : r \in full }
        \cup UNION { [1..n -> core] : n \in 2..MaxEvents }

QuakeStores(s, t) ==
    LET full == { QuakeRow(s, t, off, km, m) :
                    off \in TimeOffsets, km \in QuakeOffsetsKm, m \in Magnitudes }
        core == { QuakeRow(s, t, off, km, m) :
                    off \in CoreOffsets, km \in CoreOffsetsKm, m \in CoreMagnitudes }
    IN  { <<>> } \cup { <<r>> : r \in full }
        \cup UNION { [1..n -> core] : n \in 2..MaxEvents }

DefaultCfg ==
    [confidence_threshold |-> FIRMS_CONFIDENCE_THRESHOLD,
     min_frp |-> FIRMS_MIN_FRP,
     min_detections |-> FIRMS_MIN_DETECTIONS,
     radius_km |-> LABEL_RADIUS_KM,
     min_magnitude |-> USGS_MIN_MAGNITUDE,
     min_events |-> USGS_MIN_EVENTS,
     quake_radius_km |-> USGS_RADIUS_KM,
     daylight_only |-> FIRMS_DAYLIGHT_ONLY]

FireCfgs ==
    { DefaultCfg,
      [DefaultCfg EXCEPT !.min_detections = 2],
      [DefaultCfg EXCEPT !.radius_km = 50],
      [DefaultCfg EXCEPT !.min_detections = 0],
      [DefaultCfg EXCEPT !.daylight_only = FALSE] }

QuakeCfgs ==
    { DefaultCfg,
      [DefaultCfg EXCEPT !.min_events = 2],
      [DefaultCfg EXCEPT !.quake_radius_km = 50],
      [DefaultCfg EXCEPT !.min_magnitude = 40] }

\* ---------------------------------------------------------------- the sample

\* The state after the event stores, the site and the target date are in
\* memory: one hazard's store is populated, the other's is empty.
Init ==
    /\ site \in Sites
    /\ target_date \in Targets
    /\ \/ /\ firms_has_daynight \in BOOLEAN
          /\ firms_df \in FireStores(site, target_date, firms_has_daynight)
          /\ usgs_df = <<>>
          /\ cfg \in FireCfgs
       \/ /\ firms_has_daynight = FALSE
          /\ firms_df = <<>>
          /\ usgs_df \in QuakeStores(site, target_date)
          /\ cfg \in QuakeCfgs
    /\ pc = "fire_label"
    /\ fire_label = NoResult
    /\ fire_label_rows = <<>>
    /\ quake_label = NoResult
    /\ quake_label_rows = <<>>
    /\ features = <<>>
    /\ past_rows_short = <<>>
    /\ past_rows_long = <<>>
    /\ weather = NotCalled
    /\ weather_call = NotCalled
    /\ weather_fallbacks = {}
    /\ dataset_df = <<>>
    /\ feature_names = [fire |-> <<>>, quake |-> <<>>]
    /\ fire_features_dict = <<>>
    /\ quake_features_dict = <<>>
    /\ prediction = NoResult
    /\ BuildIdle
    /\ UtilIdle
    /\ route = Route("R")
    /\ predictions_df = <<>>

\* generate_labels_for_dataset, one (site, target_date): the wildfire label
BuildFireLabel ==
    /\ pc = "fire_label"
    /\ UNCHANGED <<buildVars, utilVars>>
    /\ fire_label' = build_fire_label(site, target_date, firms_df, firms_has_daynight,
                                      cfg.confidence_threshold, cfg.min_frp,
                                      cfg.min_detections, cfg.radius_km)
    /\ fire_label_rows' = FutureFires(site, target_date, firms_df, firms_has_daynight,
                                      cfg.confidence_threshold, cfg.min_frp,
                                      cfg.radius_km)
    /\ pc' = "quake_label"
    /\ UNCHANGED <<modelVars, routeVars>>
    /\ UNCHANGED <<sampleVars, quake_label, quake_label_rows,
                   features, past_rows_short, past_rows_long>>

\* generate_labels_for_dataset, one (site, target_date): the earthquake label
BuildQuakeLabel ==
    /\ pc = "quake_label"
    /\ UNCHANGED <<buildVars, utilVars>>
    /\ quake_label' = build_quake_label(site, target_date, usgs_df,
                                        cfg.min_magnitude, cfg.min_events,
                                        cfg.quake_radius_km)
    /\ quake_label_rows' = FutureQuakes(site, target_date, usgs_df,
                                        cfg.min_magnitude, cfg.quake_radius_km)
    /\ pc' = "features"
    /\ UNCHANGED <<modelVars, routeVars>>
    /\ UNCHANGED <<sampleVars, fire_label, fire_label_rows,
                   features, past_rows_short, past_rows_long>>

\* extract_firms_historical_features for the sample
ExtractFirmsHistoricalFeatures ==
    /\ pc = "features"
    /\ UNCHANGED <<buildVars, utilVars>>
    /\ features' = extract_firms_historical_features(
                        site, target_date, firms_df, firms_has_daynight,
                        LOOKBACK_DAYS_SHORT, LOOKBACK_DAYS_LONG)
    /\ past_rows_short' = PastFires(site, target_date, firms_df,
                                    firms_has_daynight, LOOKBACK_DAYS_SHORT)
    /\ past_rows_long' = PastFires(site, target_date, firms_df,
                                   firms_has_daynight, LOOKBACK_DAYS_LONG)
    /\ pc' = "fire_features"
    /\ UNCHANGED <<modelVars, routeVars>>
    /\ UNCHANGED <<sampleVars, fire_label, fire_label_rows,
                   quake_label, quake_label_rows>>

\* extract_usgs_historical_features for the sample
ExtractUsgsHistoricalFeatures ==
    /\ pc = "features"
    /\ UNCHANGED <<buildVars, utilVars>>
    /\ features' = extract_usgs_historical_features(
                        site, target_date, usgs_df,
                        LOOKBACK_DAYS_SHORT, LOOKBACK_DAYS_LONG,
                        FEATURE_MIN_MAGNITUDE)
    /\ past_rows_short' = PastQuakes(site, target_date, usgs_df,
                                     LOOKBACK_DAYS_SHORT, FEATURE_MIN_MAGNITUDE)
    /\ past_rows_long' = PastQuakes(site, target_date, usgs_df,
                                    LOOKBACK_DAYS_LONG, FEATURE_MIN_MAGNITUDE)
    /\ pc' = "quake_features"
    /\ UNCHANGED <<modelVars, routeVars>>
    /\ UNCHANGED <<sampleVars, fire_label, fire_label_rows,
                   quake_label, quake_label_rows>>

Next ==
    \/ BuildFireLabel
    \/ BuildQuakeLabel
    \/ ExtractFirmsHistoricalFeatures
    \/ ExtractUsgsHistoricalFeatures

Spec == Init /\ [][Next]_vars

\* ------------------------------------------------- training and inference pipeline

\* temperature, mean and minimum humidity, daily precipitation (tenths of mm)
Climates ==
    { [temp |-> -5, humidity_mean |-> 80, humidity_min |-> 60, precipitation |-> 25],
      [temp |-> -5, humidity_mean |-> 50, humidity_min |-> 30, precipitation |-> 0],
      [temp |-> 3, humidity_mean |-> 60, humidity_min |-> 45, precipitation |-> 9],
      [temp |-> 7, humidity_mean |-> 60, humidity_min |-> 45, precipitation |-> 10],
      [temp |-> 15, humidity_mean |-> 60, humidity_min |-> 45, precipitation |-> 0],
      [temp |-> 15, humidity_mean |-> 50, humidity_min |-> 30, precipitation |-> 0],
      [temp |-> 28, humidity_mean |-> 40, humidity_min |-> 25, precipitation |-> 0],
      [temp |-> 32, humidity_mean |-> 30, humidity_min |-> 25, precipitation |-> 0],
      [temp |-> 40, humidity_mean |-> 20, humidity_min |-> 10, precipitation |-> 0],
      [temp |-> 0, humidity_mean |-> 71, humidity_min |-> 60, precipitation |-> 25],
      [temp |-> 25, humidity_mean |-> 60, humidity_min |-> 45, precipitation |-> 0],
      [temp |-> 35, humidity_mean |-> 20, humidity_min |-> 10, precipitation |-> 0] }

TrainingClimates == { c \in Climates : c.temp \in { 3, 40 } }

WeatherOutcomes(climates, today) ==
    { [kind |-> "ok", climate |-> c, today |-> today] : c \in climates }
    \cup { [kind |-> "none"], [kind |-> "bad_frame"], [kind |-> "client_raises"] }

FeatureOffsets == { -200, -1, 71 }

FeatureFireStores(s, t, has_dn) ==
    { <<>> } \cup { <<FireRow(s, t, off, km, q, has_dn)>> :
                      off \in FeatureOffsets, km \in CoreOffsetsKm, q \in CoreFireQualities }

FeatureQuakeStores(s, t) ==
    { <<QuakeRow(s, t, off, km, m)>> :
        off \in FeatureOffsets, km \in CoreOffsetsKm, m \in CoreMagnitudes }

TrainingTargets == { 1440, 1453 }

\* The calendar day the forecast service counts from when asked at time now:
\* the site's local day ('timezone': 'auto'), which is the UTC day or, west of
\* Greenwich in the early UTC hours, the day before.
ServiceDays(now) == { DateOf(now), DateOf(now) - 1 }

\* Hours from the training sample's target date to the moment of inference
InferenceDelays == { 100, 3347 }

\* What a classifier's predict_proba answers
FireModelProbas == { <<0, 1>>, <<1, 2>>, <<1, 1>> }

QuakeModelProbas == { <<0, 1>>, <<1, 2>> }

InitFeatures ==
    /\ site \in Sites
    /\ target_date \in TrainingTargets
    /\ \/ /\ firms_has_daynight \in BOOLEAN
          /\ firms_df \in FeatureFireStores(site, target_date, firms_has_daynight)
          /\ usgs_df = <<>>
       \/ /\ firms_has_daynight = FALSE
          /\ firms_df = <<>>
          /\ usgs_df \in FeatureQuakeStores(site, target_date)
    /\ cfg = DefaultCfg
    /\ pc = "build_fire_dataset"
    /\ fire_label = NoResult
    /\ fire_label_rows = <<>>
    /\ quake_label = NoResult
    /\ quake_label_rows = <<>>
    /\ features = <<>>
    /\ past_rows_short = <<>>
    /\ past_rows_long = <<>>
    /\ weather = NotCalled
    /\ weather_call = NotCalled
    /\ weather_fallbacks = {}
    /\ dataset_df = <<>>
    /\ feature_names = [fire |-> <<>>, quake |-> <<>>]
    /\ fire_features_dict = <<>>
    /\ quake_features_dict = <<>>
    /\ prediction = NoResult
    /\ BuildIdle
    /\ UtilIdle
    /\ route = Route("R")
    /\ predictions_df = <<>>

\* build_sensor_dataset: build_dataset(model_type='fire'), historical weather
BuildFireDataset ==
    /\ pc = "build_fire_dataset"
    /\ UNCHANGED <<buildVars, utilVars>>
    /\ \E wx \in WeatherOutcomes(TrainingClimates, DateOf(target_date)) :
          /\ weather' = wx
          /\ weather_call' = WeatherCall(site, target_date, FALSE, wx)
          /\ weather_fallbacks' =
                 IF wx.kind = "ok" THEN weather_fallbacks
                 ELSE weather_fallbacks
                      \cup { extract_weather_features(site, target_date, FALSE, wx) }
          /\ dataset_df' = build_dataset(<<site>>, <<target_date>>, firms_df,
                                         firms_has_daynight, usgs_df, "fire", <<wx>>)
    /\ pc' = "train_fire_model"
    /\ UNCHANGED <<sampleVars, resultVars, routeVars>>
    /\ UNCHANGED <<feature_names, fire_features_dict, quake_features_dict, prediction>>

\* train_sensor_model: the fire model's feature names, saved with the model
TrainFireModel ==
    /\ pc = "train_fire_model"
    /\ UNCHANGED <<buildVars, utilVars>>
    /\ feature_names' = [feature_names EXCEPT !.fire = load_train_test_data(dataset_df)]
    /\ pc' = "build_quake_dataset"
    /\ UNCHANGED <<sampleVars, resultVars, routeVars>>
    /\ UNCHANGED <<weather, weather_call, weather_fallbacks, dataset_df,
                   fire_features_dict, quake_features_dict, prediction>>

\* build_sensor_dataset: build_dataset(model_type='quake'), no weather request
BuildQuakeDataset ==
    /\ pc = "build_quake_dataset"
    /\ UNCHANGED <<buildVars, utilVars>>
    /\ weather' = NotCalled
    /\ weather_call' = NotCalled
    /\ UNCHANGED weather_fallbacks
    /\ dataset_df' = build_dataset(<<site>>, <<target_date>>, firms_df,
                                   firms_has_daynight, usgs_df, "quake", <<NotCalled>>)
    /\ pc' = "train_quake_model"
    /\ UNCHANGED <<sampleVars, resultVars, routeVars>>
    /\ UNCHANGED <<feature_names, fire_features_dict, quake_features_dict, prediction>>

\* train_sensor_model: the quake model's feature names, saved with the model
TrainQuakeModel ==
    /\ pc = "train_quake_model"
    /\ UNCHANGED <<buildVars, utilVars>>
    /\ feature_names' = [feature_names EXCEPT !.quake = load_train_test_data(dataset_df)]
    /\ pc' = "predict"
    /\ UNCHANGED <<sampleVars, resultVars, routeVars>>
    /\ UNCHANGED <<weather, weather_call, weather_fallbacks, dataset_df,
                   fire_features_dict, quake_features_dict, prediction>>

\* run_sensor_forecast: predict_dual_risk for the site at the moment of inference
PredictDualRisk ==
    /\ pc = "predict"
    /\ UNCHANGED <<buildVars, utilVars>>
    /\ \E delay \in InferenceDelays, fire_model_proba \in FireModelProbas,
          quake_model_proba \in QuakeModelProbas :
          \E today \in ServiceDays(target_date + delay) :
          \E wx \in WeatherOutcomes(Climates, today) :
             /\ target_date' = target_date + delay
             /\ weather' = wx
             /\ weather_call' = WeatherCall(site, target_date', TRUE, wx)
             /\ weather_fallbacks' =
                    IF wx.kind = "ok" THEN weather_fallbacks
                    ELSE weather_fallbacks
                         \cup { extract_weather_features(site, target_date', TRUE, wx) }
             /\ fire_features_dict' =
                    extract_all_features(site, target_date', firms_df, firms_has_daynight,
                                         usgs_df, "fire", FALSE, wx)
             /\ quake_features_dict' =
                    extract_all_features(site, target_date', firms_df, firms_has_daynight,
                                         usgs_df, "quake", FALSE, wx)
             /\ prediction' =
                    predict_dual_risk(site, fire_features_dict', quake_features_dict',
                                      fire_model_proba, quake_model_proba,
                                      feature_names.fire, feature_names.quake)
    /\ pc' = "predicted"
    /\ UNCHANGED <<site, firms_df, firms_has_daynight, usgs_df, cfg>>
    /\ UNCHANGED <<resultVars, routeVars, dataset_df, feature_names>>

NextFeatures ==
    \/ BuildFireDataset
    \/ TrainFireModel
    \/ BuildQuakeDataset
    \/ TrainQuakeModel
    \/ PredictDualRisk

SpecFeatures == InitFeatures /\ [][NextFeatures]_vars

\* -------------------------------------------------------------- route processing

Orders == { 1, 2 }

\* Waypoints: one named like site A, one 40 km from A, one 50 km from site B
\* and one exactly 100 km from B.
Waypoints ==
    { [name |-> "a", lat |-> 0], [name |-> "X", lat |-> 40],
      [name |-> "Z", lat |-> 950], [name |-> "Y", lat |-> 1100] }

SiteA == [name |-> "A", lat |-> 0, lon |-> 0]

SiteB == [name |-> "B", lat |-> 1000, lon |-> 0]

\* A row of the predictions frame, as predict_dual_risk returns it
PredictionRow(s, fire_proba, quake_proba) ==
    LET combined_proba == FracOneMinus(FracMul(FracOneMinus(fire_proba),
                                               FracOneMinus(quake_proba)))
    IN  [site_name |-> s.name, lat |-> s.lat, lon |-> s.lon,
         fire_probability |-> fire_proba,
         fire_risk_score |-> FracMul(fire_proba, <<100, 1>>),
         quake_probability |-> quake_proba,
         quake_risk_score |-> FracMul(quake_proba, <<100, 1>>),
         combined_probability |-> combined_proba,
         combined_risk_score |-> FracMul(combined_proba, <<100, 1>>)]

RowProbas == { <<0, 1>>, <<1, 2>>, <<1, 1>> }

PredictionFrames ==
    LET rowsA == { PredictionRow(SiteA, f, q) : f \in RowProbas, q \in RowProbas }
        rowsB == { PredictionRow(SiteB, <<1, 2>>, <<0, 1>>),
                   PredictionRow(SiteB, <<1, 4>>, <<1, 1>>) }
    IN  { <<>> } \cup { <<a>> : a \in rowsA } \cup { <<a, b>> : a \in rowsA, b \in rowsB }

\* The prediction sets a later run of the forecast hands over: none, or site A
\* alone
ChangedFrames ==
    { <<>>, << PredictionRow(SiteA, <<0, 1>>, <<1, 2>>) >> }

InitRoute ==
    /\ site = SiteA
    /\ target_date = 1440
    /\ firms_df = <<>>
    /\ firms_has_daynight = FALSE
    /\ usgs_df = <<>>
    /\ cfg = DefaultCfg
    /\ pc = "load_routes"
    /\ fire_label = NoResult
    /\ fire_label_rows = <<>>
    /\ quake_label = NoResult
    /\ quake_label_rows = <<>>
    /\ features = <<>>
    /\ past_rows_short = <<>>
    /\ past_rows_long = <<>>
    /\ weather = NotCalled
    /\ weather_call = NotCalled
    /\ weather_fallbacks = {}
    /\ dataset_df = <<>>
    /\ feature_names = [fire |-> <<>>, quake |-> <<>>]
    /\ fire_features_dict = <<>>
    /\ quake_features_dict = <<>>
    /\ prediction = NoResult
    /\ BuildIdle
    /\ UtilIdle
    /\ route = Route("R")
    /\ predictions_df \in PredictionFrames

\* load_routes_from_csv, one row of the file: Route.add_point
AddPoint ==
    /\ pc = "load_routes"
    /\ UNCHANGED <<buildVars, utilVars>>
    /\ Len(route.points) < MaxPoints
    /\ \E order \in Orders, w \in Waypoints :
          route' = add_point(route, RoutePoint(order, w.name, w.lat, 0))
    /\ UNCHANGED <<sampleVars, pc, resultVars, modelVars, predictions_df>>

\* process_all_routes, step 1: assign_risks_to_route
AssignRisksToRoute ==
    /\ pc \in { "load_routes", "reprocess" }
    /\ UNCHANGED <<buildVars, utilVars>>
    /\ route' = assign_risks_to_route(route, predictions_df)
    /\ pc' = "assigned"
    /\ UNCHANGED <<sampleVars, resultVars, modelVars, predictions_df>>

\* process_all_routes, step 2: calculate_route_distances
CalculateRouteDistances ==
    /\ pc = "assigned"
    /\ UNCHANGED <<buildVars, utilVars>>
    /\ route' = calculate_route_distances(route)
    /\ pc' = "measured"
    /\ UNCHANGED <<sampleVars, resultVars, modelVars, predictions_df>>

\* process_all_routes, step 3: calculate_accumulated_risk
CalculateAccumulatedRisk ==
    /\ pc = "measured"
    /\ UNCHANGED <<buildVars, utilVars>>
    /\ route' = calculate_accumulated_risk(route)
    /\ pc' = "accumulated"
    /\ UNCHANGED <<sampleVars, resultVars, modelVars, predictions_df>>

\* process_all_routes called again on the same Route objects after the
\* predictions changed
ChangePredictions ==
    /\ pc = "accumulated"
    /\ UNCHANGED <<buildVars, utilVars>>
    /\ predictions_df' \in ChangedFrames \ { predictions_df }
    /\ pc' = "reprocess"
    /\ UNCHANGED <<sampleVars, resultVars, modelVars, route>>

NextRoute ==
    \/ ChangePredictions
    \/ AddPoint
    \/ AssignRisksToRoute
    \/ CalculateRouteDistances
    \/ CalculateAccumulatedRisk

SpecRoute == InitRoute /\ [][NextRoute]_vars

\* --------------------------------------------------------------- dataset builder

\* The site registry files
SiteRegistries == { <<SiteA>>, <<SiteA, SiteB>>, <<SiteB, SiteA>> }

\* Target date lists given to build_dataset
TargetDateLists == { <<1440>>, <<1440, 1608>>, <<1621, 1453>> }

\* FIRE_/QUAKE_START_DATE and _END_DATE, as short ranges
SampleRanges == { <<1440, 1441>>, <<1440, 1776>> }

\* Split dates: a sample date, a date between samples, a date before all
SplitDates == { 1608, 1500, 1440 }

\* How a historical weather request of the dataset builder ends
BuildWeather ==
    { [kind |-> "ok", today |-> 0,
       climate |-> [temp |-> 28, humidity_mean |-> 40, humidity_min |-> 25,
                    precipitation |-> 0]],
      [kind |-> "none"], [kind |-> "client_raises"] }

BuildFireFiles ==
    { NoFile,
      FileOf(<< FireRow(SiteA, 1440, 71, 40, <<80, 50, 300, "D">>, FALSE) >>) }

BuildFireStores ==
    { <<>>, << FireRow(SiteA, 1440, 71, 40, <<80, 50, 300, "D">>, FALSE) >>,
      << FireRow(SiteA, 1608, -1, 40, <<80, 50, 300, "D">>, FALSE) >> }

BuildQuakeFiles ==
    { NoFile, FileOf(<<>>), FileOf(<< QuakeRow(SiteB, 1440, 71, 40, 50) >>) }

BuildQuakeStores ==
    { <<>>, << QuakeRow(SiteB, 1440, 71, 40, 50) >>,
      << QuakeRow(SiteA, 1608, -1, 60, 30) >> }

\* Either main() is about to run against the files on disk, or build_dataset
\* is about to be called on frames in memory.
InitBuild ==
    /\ site = SiteA
    /\ target_date = 1440
    /\ firms_has_daynight = FALSE
    /\ cfg = DefaultCfg
    /\ \/ /\ pc = "main_load"
          /\ disk \in [firms_2024 : BuildFireFiles, firms_2025_archive : { NoFile },
                       firms_2025_nrt : { NoFile, FileOf(<<>>) },
                       usgs_historical : BuildQuakeFiles,
                       usgs_cache : { NoFile, FileOf(<<>>) }]
          /\ firms_df = <<>>
          /\ usgs_df = <<>>
          /\ sites_df = <<>>
          /\ target_dates = <<>>
       \/ /\ pc = "build_dataset"
          /\ disk = [firms_2024 |-> NoFile, firms_2025_archive |-> NoFile,
                     firms_2025_nrt |-> NoFile, usgs_historical |-> NoFile,
                     usgs_cache |-> NoFile]
          /\ firms_df \in BuildFireStores
          /\ usgs_df \in BuildQuakeStores
          /\ sites_df \in SiteRegistries
          /\ target_dates \in TargetDateLists
    /\ sample_dates = [fire |-> <<>>, quake |-> <<>>]
    /\ wx_of = <<>>
    /\ fire_dataset = <<>>
    /\ quake_dataset = <<>>
    /\ output_files = <<>>
    /\ exit_status = "running"
    /\ split_ts = 0
    /\ train_df = <<>>
    /\ test_df = <<>>
    /\ fire_label = NoResult
    /\ fire_label_rows = <<>>
    /\ quake_label = NoResult
    /\ quake_label_rows = <<>>
    /\ features = <<>>
    /\ past_rows_short = <<>>
    /\ past_rows_long = <<>>
    /\ weather = NotCalled
    /\ weather_call = NotCalled
    /\ weather_fallbacks = {}
    /\ dataset_df = <<>>
    /\ feature_names = [fire |-> <<>>, quake |-> <<>>]
    /\ fire_features_dict = <<>>
    /\ quake_features_dict = <<>>
    /\ prediction = NoResult
    /\ route = Route("R")
    /\ predictions_df = <<>>
    /\ UtilIdle

mainUnchanged == <<site, target_date, firms_has_daynight, cfg, resultVars, modelVars,
                   routeVars, target_dates, split_ts, train_df, test_df, utilVars>>

\* main, steps 1 and 2: the sample dates, the sites and the event sources
MainLoadData ==
    /\ pc = "main_load"
    /\ \E fire_range \in SampleRanges, quake_range \in SampleRanges,
          registry \in { <<SiteA>>, <<SiteA, SiteB>> } :
          /\ sample_dates' =
                 [fire |-> generate_sample_dates(fire_range[1], fire_range[2],
                                                 SAMPLE_FREQUENCY_DAYS),
                  quake |-> generate_sample_dates(quake_range[1], quake_range[2],
                                                  SAMPLE_FREQUENCY_DAYS)]
          /\ LET loaded == main_load_data(disk)
             IN  IF loaded.raised
                 THEN /\ exit_status' = "error"
                      /\ pc' = "main_exited"
                      /\ UNCHANGED <<sites_df, firms_df, usgs_df>>
                 ELSE /\ sites_df' = registry
                      /\ firms_df' = loaded.firms_df
                      /\ usgs_df' = loaded.usgs_df
                      /\ pc' = "main_build_fire"
                      /\ UNCHANGED exit_status
    /\ UNCHANGED <<disk, wx_of, fire_dataset, quake_dataset, output_files>>
    /\ UNCHANGED mainUnchanged

\* main, step 3: build_dataset(model_type='fire')
MainBuildFireDataset ==
    /\ pc = "main_build_fire"
    /\ \E wxs \in [1..(Len(sites_df) * Len(sample_dates.fire)) ->
                         { w \in BuildWeather : w.kind # "none" }] :
          /\ wx_of' = wxs
          /\ fire_dataset' = build_dataset(sites_df, sample_dates.fire, firms_df,
                                           firms_has_daynight, usgs_df, "fire", wxs)
    /\ pc' = "main_split_fire"
    /\ UNCHANGED <<disk, sites_df, firms_df, usgs_df, sample_dates, quake_dataset,
                   output_files, exit_status>>
    /\ UNCHANGED mainUnchanged

\* main, steps 4 and 5: the fire dataset is split and saved
MainSaveFire ==
    /\ pc = "main_split_fire"
    /\ IF SplitRaises(fire_dataset)
       THEN /\ exit_status' = "error"
            /\ pc' = "main_exited"
            /\ UNCHANGED output_files
       ELSE /\ \E test_idx \in SUBSET (DOMAIN fire_dataset) :
                  /\ Cardinality(test_idx) = TestRows(Len(fire_dataset))
                  /\ LET parts == stratified_random_split(fire_dataset, test_idx)
                     IN  output_files' =
                             DictUpdate(output_files,
                                        << Item("fire_train.csv", parts.train_df),
                                           Item("fire_test.csv", parts.test_df) >>)
            /\ pc' = "main_quake"
            /\ UNCHANGED exit_status
    /\ UNCHANGED <<disk, sites_df, firms_df, usgs_df, sample_dates, wx_of,
                   fire_dataset, quake_dataset>>
    /\ UNCHANGED mainUnchanged

\* main, step 6: build_dataset(model_type='quake') when usgs_df has rows
MainBuildQuakeDataset ==
    /\ pc = "main_quake"
    /\ Len(usgs_df) > 0
    /\ quake_dataset' =
           build_dataset(sites_df, sample_dates.quake, firms_df, firms_has_daynight,
                         usgs_df, "quake",
                         [k \in 1..(Len(sites_df) * Len(sample_dates.quake)) |-> NotCalled])
    /\ pc' = "main_split_quake"
    /\ UNCHANGED <<disk, sites_df, firms_df, usgs_df, sample_dates, wx_of,
                   fire_dataset, output_files, exit_status>>
    /\ UNCHANGED mainUnchanged

\* main, step 6, else branch: "Skipping Quake Dataset", and main returns
MainSkipQuake ==
    /\ pc = "main_quake"
    /\ Len(usgs_df) = 0
    /\ exit_status' = "ok"
    /\ pc' = "main_exited"
    /\ UNCHANGED <<disk, sites_df, firms_df, usgs_df, sample_dates, wx_of,
                   fire_dataset, quake_dataset, output_files>>
    /\ UNCHANGED mainUnchanged

\* main, steps 7 and 8: the quake dataset is split and saved, and main returns
MainSaveQuake ==
    /\ pc = "main_split_quake"
    /\ IF SplitRaises(quake_dataset)
       THEN /\ exit_status' = "error"
            /\ UNCHANGED output_files
       ELSE /\ \E test_idx \in SUBSET (DOMAIN quake_dataset) :
                  /\ Cardinality(test_idx) = TestRows(Len(quake_dataset))
                  /\ LET parts == stratified_random_split(quake_dataset, test_idx)
                     IN  output_files' =
                             DictUpdate(output_files,
                                        << Item("quake_train.csv", parts.train_df),
                                           Item("quake_test.csv", parts.test_df) >>)
            /\ exit_status' = "ok"
    /\ pc' = "main_exited"
    /\ UNCHANGED <<disk, sites_df, firms_df, usgs_df, sample_dates, wx_of,
                   fire_dataset, quake_dataset>>
    /\ UNCHANGED mainUnchanged

libraryUnchanged == <<sampleVars, resultVars, routeVars, disk, sites_df, target_dates,
                      sample_dates, fire_dataset, quake_dataset, output_files,
                      exit_status, weather, weather_call, weather_fallbacks,
                      feature_names, fire_features_dict, quake_features_dict, prediction,
                      utilVars>>

\* build_dataset called for the fire model on the frames in memory
BuildDatasetFire ==
    /\ pc = "build_dataset"
    /\ \E wxs \in [1..(Len(sites_df) * Len(target_dates)) -> BuildWeather] :
          /\ wx_of' = wxs
          /\ dataset_df' = build_dataset(sites_df, target_dates, firms_df,
                                         firms_has_daynight, usgs_df, "fire", wxs)
    /\ pc' = "time_based_split"
    /\ UNCHANGED <<split_ts, train_df, test_df>>
    /\ UNCHANGED libraryUnchanged

\* build_dataset called for the quake model on the frames in memory
BuildDatasetQuake ==
    /\ pc = "build_dataset"
    /\ wx_of' = [k \in 1..(Len(sites_df) * Len(target_dates)) |-> NotCalled]
    /\ dataset_df' = build_dataset(sites_df, target_dates, firms_df,
                                   firms_has_daynight, usgs_df, "quake", wx_of')
    /\ pc' = "time_based_split"
    /\ UNCHANGED <<split_ts, train_df, test_df>>
    /\ UNCHANGED libraryUnchanged

\* time_based_split called on the dataset
TimeBasedSplit ==
    /\ pc = "time_based_split"
    /\ \E ts \in SplitDates :
          /\ split_ts' = ts
          /\ train_df' = time_based_split(dataset_df, ts).train_df
          /\ test_df' = time_based_split(dataset_df, ts).test_df
    /\ pc' = "split"
    /\ UNCHANGED <<wx_of, dataset_df>>
    /\ UNCHANGED libraryUnchanged

NextBuild ==
    \/ MainLoadData
    \/ MainBuildFireDataset
    \/ MainSaveFire
    \/ MainBuildQuakeDataset
    \/ MainSkipQuake
    \/ MainSaveQuake
    \/ BuildDatasetFire
    \/ BuildDatasetQuake
    \/ TimeBasedSplit

SpecBuild == InitBuild /\ [][NextBuild]_vars

\* ------------------------------------------------ geometries, sample dates

\* the most iterations of generate_sample_dates' loop that are followed
MaxDates == 4

\* Coordinate values by nesting depth: numbers, points (complete, short,
\* empty), lists of points, and so on up to the depth of a MultiPolygon, and
\* one level more
GoodPoint == List(<<Num(10), Num(52)>>)

Level0 == { Num(0), Num(10) }

Level1 == { List(<<>>), List(<<Num(13)>>), GoodPoint, List(<<Num(13), Num(48), Num(7)>>) }

Level2 == { List(<<a>>) : a \in Level1 } \cup { List(<<GoodPoint, a>>) : a \in Level0 \cup Level1 }

Level3 == { List(<<a>>) : a \in Level2 }

Level4 == { List(<<a>>) : a \in Level3 }

Level5 == { List(<<a>>) : a \in Level4 }

CoordinateValues == { Null } \cup Level0 \cup Level1 \cup Level2 \cup Level3 \cup Level4 \cup Level5

\* The GeoJSON types, one the function does not support, and a missing type
GeometryTypes == { "Point", "MultiPoint", "LineString", "MultiLineString", "Polygon",
                   "MultiPolygon", "GeometryCollection", "" }

\* Geometry dicts; a missing "coordinates" key reads as the empty list
Geometries == [kind : { "dict" }, type : GeometryTypes, coordinates : CoordinateValues]

\* Start and end dates (hours, not all at midnight) and strides in days
SampleStarts == { 0, 24 }

SampleEnds == { 0, 24, 48, 60, 72 }

SampleFrequencies == { -1, 0, 1, 2, SAMPLE_FREQUENCY_DAYS }

InitUtil ==
    /\ site = SiteA
    /\ target_date = 1440
    /\ firms_df = <<>>
    /\ firms_has_daynight = FALSE
    /\ usgs_df = <<>>
    /\ cfg = DefaultCfg
    /\ fire_label = NoResult
    /\ fire_label_rows = <<>>
    /\ quake_label = NoResult
    /\ quake_label_rows = <<>>
    /\ features = <<>>
    /\ past_rows_short = <<>>
    /\ past_rows_long = <<>>
    /\ weather = NotCalled
    /\ weather_call = NotCalled
    /\ weather_fallbacks = {}
    /\ dataset_df = <<>>
    /\ feature_names = [fire |-> <<>>, quake |-> <<>>]
    /\ fire_features_dict = <<>>
    /\ quake_features_dict = <<>>
    /\ prediction = NoResult
    /\ route = Route("R")
    /\ predictions_df = <<>>
    /\ BuildIdle
    /\ extracted = NoResult
    /\ dates = <<>>
    /\ \/ /\ pc = "extract_coordinates"
          /\ event_geometry \in Geometries
          /\ date_args = [start_date |-> 0, end_date |-> 0,
                          frequency_days |-> SAMPLE_FREQUENCY_DAYS]
          /\ current = 0
       \/ /\ pc = "generate_sample_dates"
          /\ event_geometry = [kind |-> "dict", type |-> "", coordinates |-> List(<<>>)]
          /\ date_args \in [start_date : SampleStarts, end_date : SampleEnds,
                            frequency_days : SampleFrequencies]
          /\ current = date_args.start_date

utilUnchanged == <<sampleVars, resultVars, modelVars, routeVars, buildVars>>

\* extract_coordinates_from_geometry called on the geometry
ExtractCoordinatesFromGeometry ==
    /\ pc = "extract_coordinates"
    /\ extracted' = extract_coordinates_from_geometry(event_geometry)
    /\ pc' = "extracted"
    /\ UNCHANGED <<event_geometry, date_args, current, dates>>
    /\ UNCHANGED utilUnchanged

\* generate_sample_dates, one iteration of its loop: dates.append(current);
\* current += timedelta(days=frequency_days)
GenerateSampleDatesLoop ==
    /\ pc = "generate_sample_dates"
    /\ sample_dates_loop(current, date_args.end_date)
    /\ Len(dates) < MaxDates
    /\ dates' = Append(dates, current)
    /\ current' = sample_dates_advance(current, date_args.frequency_days)
    /\ UNCHANGED <<pc, event_geometry, extracted, date_args>>
    /\ UNCHANGED utilUnchanged

\* generate_sample_dates, the loop left: return dates
GenerateSampleDatesReturn ==
    /\ pc = "generate_sample_dates"
    /\ ~sample_dates_loop(current, date_args.end_date)
    /\ pc' = "dates_returned"
    /\ UNCHANGED <<event_geometry, extracted, date_args, current, dates>>
    /\ UNCHANGED utilUnchanged

NextUtil ==
    \/ ExtractCoordinatesFromGeometry
    \/ GenerateSampleDatesLoop
    \/ GenerateSampleDatesReturn

SpecUtil == InitUtil /\ [][NextUtil]_vars

\* The interpreter runs a started call on: no step is postponed for ever.
SpecUtilFair == SpecUtil /\ WF_vars(NextUtil)

\* ------------------------------------------------------------------- claims

\* What the claims say of one row, written from their words.
DistanceKm(r) == Abs(r.latitude - site.lat)

InHorizon(t) == target_date <= t /\ t < target_date + 72

InLookback(t, span_days) == target_date - span_days * 24 <= t /\ t < target_date

DaylightOK(r) == firms_has_daynight => r.daynight = "D"

FireCountsForLabel(r) ==
    /\ InHorizon(r.acq_date)
    /\ r.confidence >= cfg.confidence_threshold
    /\ r.frp >= cfg.min_frp
    /\ DaylightOK(r)
    /\ DistanceKm(r) < cfg.radius_km

QuakeCountsForLabel(r) ==
    /\ InHorizon(r.time)
    /\ r.mag >= cfg.min_magnitude
    /\ DistanceKm(r) < cfg.quake_radius_km

FireCountsForFeature(r, span_days) ==
    /\ InLookback(r.acq_date, span_days)
    /\ r.confidence >= 70
    /\ r.frp >= 30
    /\ DaylightOK(r)
    /\ DistanceKm(r) < 50

QuakeCountsForFeature(r, span_days) ==
    /\ InLookback(r.time, span_days)
    /\ r.mag >= 25
    /\ DistanceKm(r) < 50

CountRows(df, P(_)) == Cardinality({ i \in DOMAIN df : P(df[i]) })

RowSet(df) == { df[i] : i \in DOMAIN df }

FireLabelled == pc # "fire_label"

QuakeLabelled == pc \notin { "fire_label", "quake_label" }

\* C1: the historical feature extractors count an event only if its timestamp
\* lies in the half-open lookback window [T - span_days, T): every row they
\* keep is stamped inside the window of its span, an event stamped T or later
\* is never kept, and the 7-day and 30-day counts are exactly the numbers of
\* otherwise qualifying rows stamped inside the window.
C1_LookbackHalfOpen ==
    /\ pc = "fire_features" =>
        /\ \A r \in RowSet(past_rows_short) : InLookback(r.acq_date, 7)
        /\ \A r \in RowSet(past_rows_long) : InLookback(r.acq_date, 30)
        /\ DictGet(features, "fires_7d_count")
              = CountRows(firms_df, LAMBDA r : FireCountsForFeature(r, 7))
        /\ DictGet(features, "fires_30d_count")
              = CountRows(firms_df, LAMBDA r : FireCountsForFeature(r, 30))
    /\ pc = "quake_features" =>
        /\ \A r \in RowSet(past_rows_short) : InLookback(r.time, 7)
        /\ \A r \in RowSet(past_rows_long) : InLookback(r.time, 30)
        /\ DictGet(features, "quakes_7d_count")
              = CountRows(usgs_df, LAMBDA r : QuakeCountsForFeature(r, 7))
        /\ DictGet(features, "quakes_30d_count")
              = CountRows(usgs_df, LAMBDA r : QuakeCountsForFeature(r, 30))

\* A store with a qualifying detection one hour before T, which is counted, and
\* a qualifying detection stamped exactly T, which is not.
C1_Witness ==
    /\ pc = "fire_features"
    /\ \E i, j \in DOMAIN firms_df :
          /\ firms_df[i].acq_date = target_date - 1
          /\ firms_df[j].acq_date = target_date
          /\ FireCountsForFeature(firms_df[i], 7)
          /\ DistanceKm(firms_df[j]) < 50 /\ firms_df[j].confidence >= 70
          /\ firms_df[j].frp >= 30 /\ DaylightOK(firms_df[j])
    /\ DictGet(features, "fires_7d_count") = 1
    /\ DictGet(features, "fires_30d_count") = 1

C3_LabelFeatureDisjoint ==
    /\ pc = "fire_features" =>
          RowSet(fire_label_rows)
            \cap (RowSet(past_rows_short) \cup RowSet(past_rows_long)) = {}
    /\ pc = "quake_features" =>
          RowSet(quake_label_rows)
            \cap (RowSet(past_rows_short) \cup RowSet(past_rows_long)) = {}

\* A sample with a detection counted by the label and another counted by the
\* features.
C3_Witness ==
    /\ pc = "fire_features"
    /\ fire_label_rows # <<>>
    /\ past_rows_short # <<>>

\* C4: label = 1 if and only if the number of surviving events is at least the
\* configured minimum count, otherwise label = 0, and the reported count is
\* the number of surviving events.
C4_LabelIffMinCount ==
    /\ FireLabelled =>
        /\ fire_label.label \in { 0, 1 }
        /\ fire_label.label = 1
              <=> CountRows(firms_df, FireCountsForLabel) >= cfg.min_detections
        /\ fire_label.metadata.num_detections = Len(fire_label_rows)
    /\ QuakeLabelled =>
        /\ quake_label.label \in { 0, 1 }
        /\ quake_label.label = 1
              <=> CountRows(usgs_df, QuakeCountsForLabel) >= cfg.min_events
        /\ quake_label.metadata.num_events = Len(quake_label_rows)

\* Two surviving detections with a minimum of two: label 1.
C4_Witness ==
    /\ FireLabelled
    /\ cfg.min_detections = 2
    /\ fire_label.metadata.num_detections = 2
    /\ fire_label.label = 1

\* C5: the spatial filter is a strict inequality in the label builders and the
\* feature extractors alike: a kept row is closer than the radius, a row at
\* exactly the radius is never kept, and a row that passes the other filters
\* and is closer than the radius is kept. One qualifying fire event 40 km away
\* inside the horizon gives label 1 with count 1; 60 km away with
\* radius_km = 50 it gives label 0.
C5_RadiusStrict ==
    /\ FireLabelled =>
        /\ \A r \in RowSet(fire_label_rows) : DistanceKm(r) < cfg.radius_km
        /\ \A r \in RowSet(firms_df) :
              /\ DistanceKm(r) = cfg.radius_km => r \notin RowSet(fire_label_rows)
              /\ FireCountsForLabel(r) => r \in RowSet(fire_label_rows)
        /\ Len(firms_df) = 1 /\ cfg.min_detections = 1
              /\ InHorizon(firms_df[1].acq_date)
              /\ firms_df[1].confidence = 80 /\ firms_df[1].frp = 50
              /\ DaylightOK(firms_df[1])
            => /\ DistanceKm(firms_df[1]) = 40
                    => fire_label.label = 1
                       /\ fire_label.metadata.num_detections = 1
               /\ DistanceKm(firms_df[1]) = 60 /\ cfg.radius_km = 50
                    => fire_label.label = 0
    /\ QuakeLabelled =>
        /\ \A r \in RowSet(quake_label_rows) : DistanceKm(r) < cfg.quake_radius_km
        /\ \A r \in RowSet(usgs_df) :
              /\ DistanceKm(r) = cfg.quake_radius_km
                    => r \notin RowSet(quake_label_rows)
              /\ QuakeCountsForLabel(r) => r \in RowSet(quake_label_rows)
    /\ pc = "fire_features" =>
          \A r \in RowSet(firms_df) :
              /\ r \in RowSet(past_rows_long) => DistanceKm(r) < 50
              /\ FireCountsForFeature(r, 30) => r \in RowSet(past_rows_long)
              /\ FireCountsForFeature(r, 7) => r \in RowSet(past_rows_short)
    /\ pc = "quake_features" =>
          \A r \in RowSet(usgs_df) :
              /\ r \in RowSet(past_rows_long) => DistanceKm(r) < 50
              /\ QuakeCountsForFeature(r, 30) => r \in RowSet(past_rows_long)
              /\ QuakeCountsForFeature(r, 7) => r \in RowSet(past_rows_short)

\* The only detection lies at exactly radius_km = 50 km, inside the horizon and
\* severe enough: it is not counted.
C5_Witness ==
    /\ FireLabelled
    /\ cfg.radius_km = 50
    /\ cfg.min_detections = 1
    /\ Len(firms_df) = 1
    /\ DistanceKm(firms_df[1]) = 50
    /\ InHorizon(firms_df[1].acq_date)
    /\ firms_df[1].confidence >= cfg.confidence_threshold
    /\ firms_df[1].frp >= cfg.min_frp
    /\ DaylightOK(firms_df[1])
    /\ fire_label.label = 0

\* C6: an event below the configured minimum severity never contributes to a
\* label: a counted detection has confidence >= confidence_threshold and
\* frp >= min_frp, a counted quake has mag >= min_magnitude, and a store whose
\* only event is below the minimum yields label 0.
C6_SeverityMinimum ==
    /\ FireLabelled =>
        /\ \A r \in RowSet(fire_label_rows) :
              r.confidence >= cfg.confidence_threshold /\ r.frp >= cfg.min_frp
        /\ ( /\ cfg.min_detections >= 1
              /\ \A r \in RowSet(firms_df) :
                    r.confidence < cfg.confidence_threshold \/ r.frp < cfg.min_frp )
            => fire_label.label = 0 /\ fire_label.metadata.num_detections = 0
    /\ QuakeLabelled =>
        /\ \A r \in RowSet(quake_label_rows) : r.mag >= cfg.min_magnitude
        /\ ( /\ cfg.min_events >= 1
              /\ \A r \in RowSet(usgs_df) : r.mag < cfg.min_magnitude )
            => quake_label.label = 0 /\ quake_label.metadata.num_events = 0

\* A magnitude 3.0 quake inside the horizon and the radius, with
\* min_magnitude = 4.0, is the only event: label 0.
C6_Witness ==
    /\ QuakeLabelled
    /\ cfg.min_magnitude = 40
    /\ Len(usgs_df) = 1
    /\ usgs_df[1].mag = 30
    /\ InHorizon(usgs_df[1].time)
    /\ DistanceKm(usgs_df[1]) < cfg.quake_radius_km
    /\ quake_label.label = 0

\* C7: the label builders always return metadata with the same fields (event
\* count, max severity, average severity, window boundaries), whether the
\* label is 0 or 1; when no event survives, including on an empty store, the
\* count and every severity field are zero, and a result is returned.
C7_MetadataShape ==
    /\ FireLabelled =>
        /\ fire_label # NoResult
        /\ DOMAIN fire_label = { "label", "metadata" }
        /\ DOMAIN fire_label.metadata
              = { "num_detections", "max_brightness", "avg_brightness",
                  "max_frp", "future_window" }
        /\ fire_label.metadata.future_window
              = << target_date \div 24, (target_date + 72) \div 24 >>
        /\ CountRows(firms_df, FireCountsForLabel) = 0
            => /\ fire_label.metadata.num_detections = 0
               /\ fire_label.metadata.max_brightness = 0
               /\ fire_label.metadata.avg_brightness[1] = 0
               /\ fire_label.metadata.max_frp = 0
    /\ QuakeLabelled =>
        /\ quake_label # NoResult
        /\ DOMAIN quake_label = { "label", "metadata" }
        /\ DOMAIN quake_label.metadata
              = { "num_events", "max_magnitude", "avg_magnitude",
                  "num_significant", "future_window" }
        /\ quake_label.metadata.future_window
              = << target_date \div 24, (target_date + 72) \div 24 >>
        /\ CountRows(usgs_df, QuakeCountsForLabel) = 0
            => /\ quake_label.metadata.num_events = 0
               /\ quake_label.metadata.max_magnitude = 0
               /\ quake_label.metadata.avg_magnitude[1] = 0
               /\ quake_label.metadata.num_significant = 0

\* Both labels were built on empty stores.
C7_Witness ==
    /\ QuakeLabelled
    /\ firms_df = <<>>
    /\ usgs_df = <<>>
    /\ fire_label.label = 0
    /\ quake_label.label = 0
    /\ fire_label.metadata.num_detections = 0
    /\ quake_label.metadata.max_magnitude = 0

\* The names extract_all_features is to return, in order, for each model type
FireFeatureNames ==
    << "fires_7d_count", "fires_30d_count", "fire_max_brightness_7d",
       "fire_avg_brightness_7d", "fire_max_frp_7d", "fire_avg_frp_7d",
       "fires_persistent_days", "days_since_last_fire",
       "temp_mean", "temp_max", "humidity_mean", "humidity_min",
       "wind_max", "rain_total", "dry_days",
       "latitude", "longitude", "month", "season" >>

QuakeFeatureNames ==
    << "quakes_7d_count", "quakes_30d_count", "quake_max_mag_30d",
       "quake_avg_mag_30d", "quakes_5plus_count", "seismic_trend",
       "days_since_last_quake", "latitude", "longitude", "month", "season" >>

\* The columns of a dataset row that extract_all_features contributed: those
\* between the four identifying columns and the three label columns
FeatureColumns(row) == SubSeq(DictKeys(row), 5, Len(row) - 3)

\* C8: the ordered list of feature names extract_all_features returns depends
\* only on the model type. Whatever the event stores hold and whichever way
\* the weather request ends (historical data, forecast data, client defaults
\* or the fallback defaults), the fire list and the quake list are each one
\* fixed list, at training and at inference, so every name training recorded
\* is a key of the mapping built at inference and building the feature vector
\* raises no KeyError.
C8_FeatureNamesStable ==
    /\ pc = "train_fire_model" => FeatureColumns(dataset_df[1]) = FireFeatureNames
    /\ pc = "train_quake_model" => FeatureColumns(dataset_df[1]) = QuakeFeatureNames
    /\ feature_names.fire \in { <<>>, FireFeatureNames }
    /\ feature_names.quake \in { <<>>, QuakeFeatureNames }
    /\ pc = "predicted" =>
          /\ DictKeys(fire_features_dict) = FireFeatureNames
          /\ DictKeys(quake_features_dict) = QuakeFeatureNames
          /\ \A i \in DOMAIN feature_names.fire :
                DictHas(fire_features_dict, feature_names.fire[i])
          /\ \A i \in DOMAIN feature_names.quake :
                DictHas(quake_features_dict, feature_names.quake[i])
          /\ "error" \notin DOMAIN prediction

\* A prediction made from the fallback weather defaults for a site with a
\* qualifying fire in the short window, by models trained on the full lists.
C8_Witness ==
    /\ pc = "predicted"
    /\ weather.kind = "client_raises"
    /\ DictGet(fire_features_dict, "fires_7d_count") = 1
    /\ feature_names.fire = FireFeatureNames
    /\ feature_names.quake = QuakeFeatureNames
    /\ "error" \notin DOMAIN prediction

\* A risk score, a percentage, as the probability it stands for
Probability(risk) == FracMul(risk, <<1, 100>>)

\* PRODUCT(1 - p_i) over the first k waypoints, p_i the probability of the
\* waypoint's risk score Get(point)
RECURSIVE NoEventProduct(_, _, _)
NoEventProduct(points, Get(_), k) ==
    IF k = 0 THEN <<1, 1>>
    ELSE FracMul(NoEventProduct(points, Get, k - 1),
                 FracOneMinus(Probability(Get(points[k]))))

AtLeastOneEvent(points, Get(_), k) == FracOneMinus(NoEventProduct(points, Get, k))

\* What C9 says of one aggregated risk and the waypoint risks it is made of
AggregatesAsClaimed(aggregated, points, Get(_)) ==
    LET n == Len(points)
        result == Probability(aggregated)
    IN  /\ result = AtLeastOneEvent(points, Get, n)
        /\ n = 0 => result = <<0, 1>>
        /\ (\E i \in 1..n : Probability(Get(points[i])) = <<1, 1>>) => result = <<1, 1>>
        /\ (n = 2 /\ \A i \in 1..n : Probability(Get(points[i])) = <<1, 2>>)
              => result = <<3, 4>>
        /\ FracLeq(<<0, 1>>, result) /\ FracLeq(result, <<1, 1>>)

\* C9: calculate_accumulated_risk sets each route-level aggregated risk (fire,
\* quake, combined) to 1 - PRODUCT(1 - p_i) over the waypoints' probabilities
\* (the risk scores are percentages of these probabilities): no waypoints give
\* 0, a waypoint of probability 1 gives 1, two waypoints at 1/2 give 3/4, and
\* the result lies in [0, 1].
C9_AggregatedRisk ==
    pc = "accumulated" =>
        /\ AggregatesAsClaimed(route.aggregated_fire_risk, route.points,
                               LAMBDA q : q.fire_risk)
        /\ AggregatesAsClaimed(route.aggregated_quake_risk, route.points,
                               LAMBDA q : q.quake_risk)
        /\ AggregatesAsClaimed(route.aggregated_combined_risk, route.points,
                               LAMBDA q : q.combined_risk)

\* A processed route of two waypoints, each of combined probability 1/2, whose
\* aggregated combined risk is 75 percent.
C9_Witness ==
    /\ pc = "accumulated"
    /\ Len(route.points) = 2
    /\ \A i \in 1..2 : route.points[i].combined_risk = <<50, 1>>
    /\ route.aggregated_combined_risk = <<75, 1>>

\* C10: after calculate_accumulated_risk the accumulated risk of the k-th
\* waypoint, in route order, is the at-least-one-event combination
\* 1 - PRODUCT(1 - c_i) of the combined risks of waypoints 1..k and of no
\* later waypoint, and the first waypoint's accumulated risk is its own
\* combined risk.
C10_AccumulatedPrefix ==
    pc = "accumulated" =>
        /\ \A k \in DOMAIN route.points :
              Probability(route.points[k].accumulated_risk)
                  = AtLeastOneEvent(route.points, LAMBDA q : q.combined_risk, k)
        /\ route.points # <<>> =>
              route.points[1].accumulated_risk = route.points[1].combined_risk

\* A processed route of three waypoints with risk at each: the second one's
\* accumulated risk exceeds its own combined risk and stays below the route's
\* aggregate, which the third waypoint raises.
C10_Witness ==
    /\ pc = "accumulated"
    /\ Len(route.points) = 3
    /\ route.points[1].combined_risk = <<50, 1>>
    /\ route.points[2].combined_risk = <<50, 1>>
    /\ route.points[3].combined_risk = <<50, 1>>
    /\ route.points[2].accumulated_risk = <<75, 1>>
    /\ route.aggregated_combined_risk = <<175, 2>>

\* A fraction <<n, d>>, d > 0, lies in [0, 1]
InUnitInterval(p) == 0 <= p[1] /\ p[1] <= p[2]

Predicted == pc = "predicted" /\ "error" \notin DOMAIN prediction

\* C11: with both classifier outputs in [0, 1], the fire, quake and combined
\* probabilities predict_dual_risk returns are in [0, 1] for every
\* temp_mean, humidity_mean and humidity_min: no reduction and no x1.3 or
\* x1.5 increase leaves a probability outside [0, 1].
C11_ProbabilitiesInUnitInterval ==
    Predicted =>
        /\ InUnitInterval(prediction.fire_probability)
        /\ InUnitInterval(prediction.quake_probability)
        /\ InUnitInterval(prediction.combined_probability)

\* A prediction in extreme heat and dryness from a classifier output of 1:
\* the x1.5 increase is capped and the fire probability returned is 1.
C11_Witness ==
    /\ Predicted
    /\ weather.kind = "ok"
    /\ weather.climate.temp > 35
    /\ weather.climate.humidity_min < 20
    /\ prediction.fire_probability = <<1, 1>>
    /\ prediction.quake_probability = <<1, 2>>

\* 100 times a fraction equals a second fraction
IsHundredTimes(score, p) == score[1] * p[2] = 100 * p[1] * score[2]

\* C12: predict_dual_risk returns combined_probability =
\* 1 - (1 - fire_probability) * (1 - quake_probability) of the fire
\* probability it returns, the one after the physics-based adjustments, and
\* each risk score is 100 times the probability returned with it.
C12_CombinedProbability ==
    Predicted =>
        LET f == prediction.fire_probability
            q == prediction.quake_probability
            c == prediction.combined_probability
        IN  /\ c[1] * (f[2] * q[2])
                  = (f[2] * q[2] - (f[2] - f[1]) * (q[2] - q[1])) * c[2]
            /\ IsHundredTimes(prediction.fire_risk_score, f)
            /\ IsHundredTimes(prediction.quake_risk_score, q)
            /\ IsHundredTimes(prediction.combined_risk_score, c)

\* A prediction in frost and moist air: the classifier's 1/2 is returned as
\* 1/200 and combined with a quake probability of 1/2 into 201/400.
C12_Witness ==
    /\ Predicted
    /\ weather.kind = "ok"
    /\ weather.climate.temp <= 0
    /\ weather.climate.humidity_mean > 70
    /\ prediction.fire_probability = <<1, 200>>
    /\ prediction.quake_probability = <<1, 2>>
    /\ prediction.combined_probability = <<201, 400>>
    /\ prediction.combined_risk_score = <<201, 4>>

\* C13: in training mode every daily weather record requested for a sample
\* with target date T is dated strictly before T: the range requested is the
\* seven lookback days ending on the day before T's calendar day, whether or
\* not T is at midnight, and the records used are of those days.
C13_HistoricalWeatherBeforeTarget ==
    pc = "train_fire_model" =>
        LET request == weather_call.request
        IN  /\ request.source = "historical"
            /\ request.end_date = DateOf(target_date) - 1
            /\ request.end_date - request.start_date + 1 = 7
            /\ \A day \in request.start_date..request.end_date :
                  (day + 1) * 24 <= target_date
            /\ \A i \in DOMAIN weather_call.dates :
                  /\ weather_call.dates[i] \in request.start_date..request.end_date
                  /\ weather_call.dates[i] * 24 < target_date

\* A training sample whose target is 13:00 of its day, built from seven daily
\* records the last of which is the day before.
C13_Witness ==
    /\ pc = "train_fire_model"
    /\ target_date = 1453
    /\ weather.kind = "ok"
    /\ Len(weather_call.dates) = 7
    /\ weather_call.dates[7] = DateOf(target_date) - 1

\* C14: in inference mode the weather features for a target date T are
\* computed from forecast records dated from T forward: the forecast window
\* is the one the target_date given to extract_weather_features determines.
C14_ForecastFromTarget ==
    (pc = "predicted" /\ weather.kind = "ok") =>
        /\ weather_call.request.source = "forecast"
        /\ weather_call.dates # <<>>
        /\ weather_call.dates[1] = DateOf(target_date)
        /\ \A i \in DOMAIN weather_call.dates : weather_call.dates[i] >= DateOf(target_date)

\* C15: on any weather fetch failure extract_weather_features returns without
\* raising, and the seven values it returns are one fixed set of defaults,
\* the same whichever layer caught the failure and whether the mode is
\* historical or forecast.
C15_OneFixedDefaultSet == Cardinality(weather_fallbacks) <= 1

\* The rows of a dataset that carry the site's name and the target date
PairRows(ds, s, d) ==
    { k \in DOMAIN ds : /\ DictGet(ds[k], "site_name") = s.name
                        /\ DictGet(ds[k], "target_date") = d }

\* The wildfire label of site s for the horizon starting at d
FireLabelFor(s, d) ==
    LET counted == { i \in DOMAIN firms_df :
                       /\ d <= firms_df[i].acq_date
                       /\ firms_df[i].acq_date < d + 72
                       /\ firms_df[i].confidence >= 70
                       /\ firms_df[i].frp >= 30
                       /\ firms_has_daynight => firms_df[i].daynight = "D"
                       /\ Abs(firms_df[i].latitude - s.lat) < 100 }
    IN  IF Cardinality(counted) >= 1 THEN 1 ELSE 0

\* The earthquake label of site s for the horizon starting at d
QuakeLabelFor(s, d) ==
    LET counted == { i \in DOMAIN usgs_df :
                       /\ d <= usgs_df[i].time
                       /\ usgs_df[i].time < d + 72
                       /\ usgs_df[i].mag >= 25
                       /\ Abs(usgs_df[i].latitude - s.lat) < 150 }
    IN  IF Cardinality(counted) >= 1 THEN 1 ELSE 0

\* Row k of the dataset is the sample of site s and date d: identity, label
\* and every feature
IsSampleOf(row, s, d, model_type, wx) ==
    LET feats == extract_all_features(s, d, firms_df, firms_has_daynight, usgs_df,
                                      model_type, TRUE, wx)
    IN  /\ DictGet(row, "site_name") = s.name
        /\ DictGet(row, "target_date") = d
        /\ DictGet(row, "lat") = s.lat
        /\ DictGet(row, "lon") = s.lon
        /\ DictGet(row, "label") = IF model_type = "fire" THEN FireLabelFor(s, d)
                                   ELSE QuakeLabelFor(s, d)
        /\ FeatureColumns(row) = DictKeys(feats)
        /\ \A n \in DOMAIN feats : DictGet(row, feats[n].k) = feats[n].v

\* The dataset has one row per pair of the cross product, each row the sample
\* of its pair
IsCrossProduct(ds, sites, date_list, model_type, wxs) ==
    /\ Len(ds) = Len(sites) * Len(date_list)
    /\ \A i \in DOMAIN sites, j \in DOMAIN date_list :
          Cardinality(PairRows(ds, sites[i], date_list[j])) = 1
    /\ \A k \in DOMAIN ds :
          \E i \in DOMAIN sites, j \in DOMAIN date_list :
             IsSampleOf(ds[k], sites[i], date_list[j], model_type, wxs[k])

\* The model type build_dataset was called with: only the fire model asks for
\* weather
BuiltModelType ==
    IF \E k \in DOMAIN wx_of : wx_of[k].kind = "not_called" THEN "quake" ELSE "fire"

DatasetBuilt == pc \in { "time_based_split", "split" }

\* C16: build_dataset emits exactly one sample for each (site, date) pair of
\* sites x target_dates: |sites| * |dates| rows, each pair in exactly one row
\* (site names and dates being distinct), and each row's label and features
\* are those of the row's own site and target date. The same holds for the
\* fire and quake datasets main builds from its sample dates.
C16_OneSamplePerPair ==
    /\ DatasetBuilt =>
          IsCrossProduct(dataset_df, sites_df, target_dates, BuiltModelType, wx_of)
    /\ pc \in { "main_split_fire", "main_quake", "main_split_quake" } =>
          IsCrossProduct(fire_dataset, sites_df, sample_dates.fire, "fire", wx_of)
    /\ pc = "main_split_quake" =>
          IsCrossProduct(quake_dataset, sites_df, sample_dates.quake, "quake",
                         [k \in DOMAIN quake_dataset |-> NotCalled])

\* A fire dataset of two sites and two dates whose four rows differ in label
\* and in a historical feature.
C16_Witness ==
    /\ pc = "time_based_split"
    /\ Len(sites_df) = 2
    /\ Len(target_dates) = 2
    /\ Len(dataset_df) = 4
    /\ BuiltModelType = "fire"
    /\ \E k, m \in DOMAIN dataset_df :
          /\ DictGet(dataset_df[k], "label") = 1
          /\ DictGet(dataset_df[m], "label") = 0
          /\ DictGet(dataset_df[k], "site_name") = DictGet(dataset_df[m], "site_name")

\* The weather columns of a row hold the values used when no weather data
\* could be fetched
HasDefaultWeather(row) ==
    /\ DictGet(row, "temp_mean") = <<15, 1>>
    /\ DictGet(row, "temp_max") = 20
    /\ DictGet(row, "humidity_mean") = <<60, 1>>
    /\ DictGet(row, "humidity_min") = 40
    /\ DictGet(row, "rain_total") = 0
    /\ DictGet(row, "wind_max") \in { 5, 15 }
    /\ DictGet(row, "dry_days") \in { 2, 7 }

\* The k-th (site, date) pair in the order build_dataset processes them
PairSite(sites, date_list, k) == sites[((k - 1) \div Len(date_list)) + 1]

PairDate(sites, date_list, k) == date_list[((k - 1) % Len(date_list)) + 1]

\* Failed weather requests neither remove nor stop samples
SurvivesWeatherFailure(ds, sites, date_list, wxs) ==
    \A k \in DOMAIN wxs :
       wxs[k].kind # "ok" =>
          /\ Len(ds) = Len(sites) * Len(date_list)
          /\ \E n \in PairRows(ds, PairSite(sites, date_list, k), PairDate(sites, date_list, k)) :
                HasDefaultWeather(ds[n])
          /\ \A later \in DOMAIN wxs :
                later > k =>
                   \E n \in PairRows(ds, PairSite(sites, date_list, later),
                                     PairDate(sites, date_list, later)) :
                      wxs[later].kind = "ok" => ~HasDefaultWeather(ds[n])

\* C17: a weather-fetch failure for one (site, date) sample does not abort
\* build_dataset: the dataset still has |sites| * |dates| rows, the sample
\* whose fetch failed is among them with default weather values, and every
\* later pair has its sample too, with the fetched weather where the fetch
\* succeeded.
C17_WeatherFailureKeepsSample ==
    /\ (DatasetBuilt /\ BuiltModelType = "fire") =>
          SurvivesWeatherFailure(dataset_df, sites_df, target_dates, wx_of)
    /\ pc \in { "main_split_fire", "main_quake", "main_split_quake" } =>
          SurvivesWeatherFailure(fire_dataset, sites_df, sample_dates.fire, wx_of)

\* Four samples; the weather client raised for the second and answered for
\* the third, whose row carries the fetched temperature.
C17_Witness ==
    /\ pc = "time_based_split"
    /\ BuiltModelType = "fire"
    /\ Len(wx_of) = 4
    /\ wx_of[2].kind = "client_raises"
    /\ wx_of[3].kind = "ok"
    /\ Len(dataset_df) = 4
    /\ HasDefaultWeather(dataset_df[2])
    /\ ~HasDefaultWeather(dataset_df[3])
    /\ DictGet(dataset_df[3], "humidity_min") = 25

FirmsMissing ==
    /\ ~disk.firms_2024.exists
    /\ ~disk.firms_2025_archive.exists
    /\ ~disk.firms_2025_nrt.exists

UsgsMissing == ~disk.usgs_historical.exists /\ ~disk.usgs_cache.exists

MainRunning == pc \in { "main_load", "main_build_fire", "main_split_fire",
                        "main_quake", "main_split_quake", "main_exited" }

\* C18: when a required event source is missing (no FIRMS file, or no USGS
\* file), main fails at its loading step with an error and writes no dataset
\* file: it goes no further than loading, never exits successfully and leaves
\* OUTPUT_DIR without train or test files.
C18_MissingSourceIsFatal ==
    (MainRunning /\ (FirmsMissing \/ UsgsMissing)) =>
       /\ pc \in { "main_load", "main_exited" }
       /\ pc = "main_exited" => exit_status = "error"
       /\ output_files = <<>>

\* How many times a row occurs in a frame
Occurrences(df, row) == Cardinality({ i \in DOMAIN df : df[i] = row })

\* C19: time_based_split partitions the dataset: every sample is in exactly
\* one of train and test (and nothing else is), every train sample's
\* target_date is strictly before the split date and every test sample's is
\* on or after it, so a sample dated exactly the split date is in test.
C19_TimeSplitPartitions ==
    pc = "split" =>
       /\ Len(train_df) + Len(test_df) = Len(dataset_df)
       /\ \A k \in DOMAIN dataset_df :
             Occurrences(train_df, dataset_df[k]) + Occurrences(test_df, dataset_df[k]) = 1
       /\ \A k \in DOMAIN train_df : DictGet(train_df[k], "target_date") < split_ts
       /\ \A k \in DOMAIN test_df : DictGet(test_df[k], "target_date") >= split_ts
       /\ \A k \in DOMAIN dataset_df :
             DictGet(dataset_df[k], "target_date") = split_ts =>
                Occurrences(test_df, dataset_df[k]) = 1

\* A split with samples on both sides, one of them dated exactly the split
\* date.
C19_Witness ==
    /\ pc = "split"
    /\ train_df # <<>>
    /\ \E k \in DOMAIN test_df : DictGet(test_df[k], "target_date") = split_ts
    /\ Len(dataset_df) = 4

\* A past detection that passes the feature extractor's other filters and
\* lies within the given radius
FireFeatureWithin(r, span_days, radius_km) ==
    /\ InLookback(r.acq_date, span_days)
    /\ r.confidence >= 70
    /\ r.frp >= 30
    /\ DaylightOK(r)
    /\ DistanceKm(r) < radius_km

QuakeFeatureWithin(r, span_days, radius_km) ==
    /\ InLookback(r.time, span_days)
    /\ r.mag >= 25
    /\ DistanceKm(r) < radius_km

\* C20: every spatial filter uses the radius configured for its hazard in the
\* call, the fire radius (cfg.radius_km) for detections and the quake radius
\* (cfg.quake_radius_km) for earthquakes: the label builders keep the rows
\* closer than it, and so do the historical feature extractors.
C20_RadiusFromCallParameter ==
    /\ FireLabelled =>
          \A r \in RowSet(firms_df) :
             r \in RowSet(fire_label_rows) <=> FireCountsForLabel(r)
    /\ QuakeLabelled =>
          \A r \in RowSet(usgs_df) :
             r \in RowSet(quake_label_rows) <=> QuakeCountsForLabel(r)
    /\ pc = "fire_features" =>
          \A r \in RowSet(firms_df) :
             r \in RowSet(past_rows_long) <=> FireFeatureWithin(r, 30, cfg.radius_km)
    /\ pc = "quake_features" =>
          \A r \in RowSet(usgs_df) :
             r \in RowSet(past_rows_long) <=> QuakeFeatureWithin(r, 30, cfg.quake_radius_km)

\* The route as load_routes_from_csv builds it: the same waypoints, no risk
\* assigned or computed yet
FreshRoute(r) ==
    [Route(r.route_id) EXCEPT
        !.points = [i \in DOMAIN r.points |->
                       RoutePoint(r.points[i].order, r.points[i].name,
                                  r.points[i].lat, r.points[i].lon)]]

\* C21: after process_all_routes(routes, P) every risk of the route, per
\* waypoint, accumulated and aggregated, is what processing the freshly
\* loaded route with P gives: nothing depends on a prediction set the same
\* Route object was processed with before.
C21_RisksFromCurrentPredictions ==
    pc = "accumulated" =>
       route = calculate_accumulated_risk(
                   calculate_route_distances(
                       assign_risks_to_route(FreshRoute(route), predictions_df)))

\* Whole days from the most recent of the given timestamps to target_date
WholeDaysSince(times) ==
    LET latest == CHOOSE t \in times : \A u \in times : u <= t
    IN  (target_date - latest) \div 24

\* C22: days_since_last_fire and days_since_last_quake are 999 exactly when
\* the hazard's 30-day count is 0; otherwise they are the number of whole days
\* from the most recent qualifying event of the 30-day window to target_date,
\* a value from 0 to 999.
C22_DaysSinceLastEvent ==
    /\ pc = "fire_features" =>
          LET days == DictGet(features, "days_since_last_fire")
              recent == { r.acq_date : r \in { q \in RowSet(firms_df) :
                                                  FireCountsForFeature(q, 30) } }
          IN  /\ days = 999 <=> DictGet(features, "fires_30d_count") = 0
              /\ recent # {} => days = WholeDaysSince(recent) /\ days \in 0..999
    /\ pc = "quake_features" =>
          LET days == DictGet(features, "days_since_last_quake")
              recent == { r.time : r \in { q \in RowSet(usgs_df) :
                                              QuakeCountsForFeature(q, 30) } }
          IN  /\ days = 999 <=> DictGet(features, "quakes_30d_count") = 0
              /\ recent # {} => days = WholeDaysSince(recent) /\ days \in 0..999

\* C23: when no event qualifies in any lookback window, the store being
\* empty or not, the historical feature extractors return normally, with
\* every count 0, every maximum and average 0, 0 persistence days, 0 trend
\* and the days-since-last-event feature at 999.
C23_NoEventsNeutralFeatures ==
    /\ (pc = "fire_features"
        /\ \A r \in RowSet(firms_df) : ~FireCountsForFeature(r, 30)) =>
          features = << Item("fires_7d_count", 0), Item("fires_30d_count", 0),
                        Item("fire_max_brightness_7d", 0),
                        Item("fire_avg_brightness_7d", <<0, 1>>),
                        Item("fire_max_frp_7d", 0),
                        Item("fire_avg_frp_7d", <<0, 1>>),
                        Item("fires_persistent_days", 0),
                        Item("days_since_last_fire", 999) >>
    /\ (pc = "quake_features"
        /\ \A r \in RowSet(usgs_df) : ~QuakeCountsForFeature(r, 30)) =>
          features = << Item("quakes_7d_count", 0), Item("quakes_30d_count", 0),
                        Item("quake_max_mag_30d", 0),
                        Item("quake_avg_mag_30d", <<0, 1>>),
                        Item("quakes_5plus_count", 0),
                        Item("seismic_trend", <<0, 1>>),
                        Item("days_since_last_quake", 999) >>

\* The earthquake features of a site whose only nearby recent earthquake is
\* below the minimum magnitude.
C23_Witness ==
    /\ pc = "quake_features"
    /\ Len(usgs_df) = 1
    /\ InLookback(usgs_df[1].time, 7)
    /\ DistanceKm(usgs_df[1]) = 40
    /\ usgs_df[1].mag = 24
    /\ DictGet(features, "quakes_30d_count") = 0
    /\ DictGet(features, "days_since_last_quake") = 999

\* The daylight restriction as the configuration asks for it: with the option
\* on, a detection flagged other than daylight does not count
DaylightAsConfigured(r) ==
    (cfg.daylight_only /\ firms_has_daynight) => r.daynight = "D"

\* C24: the daylight-only restriction follows FIRMS_DAYLIGHT_ONLY. With the
\* option off, a night-time detection meeting the time, confidence, FRP and
\* radius criteria counts toward the fire label and the fire features; with
\* the option on, only detections flagged as daylight count.
C24_DaylightOptional ==
    /\ FireLabelled =>
          \A r \in RowSet(firms_df) :
             r \in RowSet(fire_label_rows) <=>
                /\ InHorizon(r.acq_date)
                /\ r.confidence >= cfg.confidence_threshold
                /\ r.frp >= cfg.min_frp
                /\ DistanceKm(r) < cfg.radius_km
                /\ DaylightAsConfigured(r)
    /\ pc = "fire_features" =>
          \A r \in RowSet(firms_df) :
             r \in RowSet(past_rows_long) <=>
                /\ InLookback(r.acq_date, 30)
                /\ r.confidence >= 70
                /\ r.frp >= 30
                /\ DistanceKm(r) < 50
                /\ DaylightAsConfigured(r)

\* a > b for fractions with positive denominators
FracGreater(a, b) == a[1] * b[2] > b[1] * a[2]

\* C25: the dominant hazard is the one with the higher route-aggregated risk:
\* "Feuer" exactly when aggregated_fire_risk > aggregated_quake_risk,
\* "Erdbeben" whenever aggregated_quake_risk > aggregated_fire_risk, and
\* "Erdbeben" too when the two are equal, as for a route without waypoints or
\* with all risks zero.
C25_DominantHazard ==
    pc = "accumulated" =>
       LET fire == route.aggregated_fire_risk
           quake == route.aggregated_quake_risk
       IN  /\ route.dominant_risk_category \in { "Feuer", "Erdbeben" }
           /\ route.dominant_risk_category = "Feuer" <=> FracGreater(fire, quake)
           /\ FracGreater(quake, fire) => route.dominant_risk_category = "Erdbeben"
           /\ FracEq(fire, quake) => route.dominant_risk_category = "Erdbeben"
           /\ route.points = <<>> => route.dominant_risk_category = "Erdbeben"

\* A processed route whose fire and quake risks are both 50 percent, reported
\* as "Erdbeben".
C25_Witness ==
    /\ pc = "accumulated"
    /\ Len(route.points) = 1
    /\ route.aggregated_fire_risk = <<50, 1>>
    /\ route.aggregated_quake_risk = <<50, 1>>
    /\ route.dominant_risk_category = "Erdbeben"

\* The points of a value nested "depth" levels above them, in document order
RECURSIVE FlatPoints(_, _)
FlatPoints(depth, x) ==
    IF depth = 0 THEN << x >>
    ELSE LET RECURSIVE upto(_)
             upto(i) == IF i = 0 THEN <<>> ELSE upto(i - 1) \o FlatPoints(depth - 1, x.items[i])
         IN  upto(Len(x.items))

\* A value nested exactly "depth" levels above points of two or more numbers
RECURSIVE WellNested(_, _)
WellNested(depth, x) ==
    /\ x.kind = "list"
    /\ IF depth = 0
       THEN Len(x.items) >= 2 /\ \A i \in DOMAIN x.items : x.items[i].kind = "num"
       ELSE \A i \in DOMAIN x.items : WellNested(depth - 1, x.items[i])

SupportedTypes == { "Point", "MultiPoint", "LineString", "MultiLineString", "Polygon",
                    "MultiPolygon" }

StrideDate(k) ==
    date_args.start_date + k * date_args.frequency_days * HoursPerDay

\* The returned list is exactly the stride's dates before the end: the k-th
\* date is in the list, at position k + 1, exactly when it is before the end;
\* the list is strictly increasing.
ExactSampleDates ==
    /\ \A k \in 0..MaxDates :
          (StrideDate(k) < date_args.end_date)
             <=> (k + 1 \in DOMAIN dates /\ dates[k + 1] = StrideDate(k))
    /\ \A i \in DOMAIN dates : dates[i] < date_args.end_date
    /\ \A i \in DOMAIN dates : i > 1 => dates[i - 1] < dates[i]
    /\ date_args.start_date < date_args.end_date => dates # <<>> /\ dates[1] = date_args.start_date

SortedByOrder(points) ==
    \A i \in DOMAIN points : i > 1 => points[i - 1].order <= points[i].order

\* A sequence without its j-th element
WithoutIndex(points, j) ==
    [i \in 1..(Len(points) - 1) |-> IF i < j THEN points[i] ELSE points[i + 1]]

\* new is old with one new waypoint put in, behind every waypoint of smaller
\* or equal order and before every waypoint of larger order
StableInsertion(old, new) ==
    \E j \in DOMAIN new :
       /\ WithoutIndex(new, j) = old
       /\ new[j] = RoutePoint(new[j].order, new[j].name, new[j].lat, new[j].lon)
       /\ \A i \in DOMAIN new : i < j => new[i].order <= new[j].order
       /\ \A i \in DOMAIN new : i > j => new[i].order > new[j].order

\* The waypoints as they identify themselves: order and name
Itinerary(points) == [i \in DOMAIN points |-> <<points[i].order, points[i].name>>]

\* C28: whatever the order of the add_point calls, route.points is sorted by
\* the order field; each call puts its waypoint in once, behind the waypoints
\* of equal order added before it, and moves no other; the processing steps
\* that follow keep the waypoints in that sequence.
C28_PointsSortedStable ==
    [][/\ SortedByOrder(route'.points)
       /\ IF Len(route'.points) # Len(route.points)
          THEN /\ Len(route'.points) = Len(route.points) + 1
               /\ StableInsertion(route.points, route'.points)
          ELSE Itinerary(route'.points) = Itinerary(route.points)]_vars

\* Three waypoints after an insertion out of order: two of order 1, in the
\* order they were added, before one of order 2, and processed in that
\* sequence.
C28_Witness ==
    /\ pc = "measured"
    /\ Itinerary(route.points) = << <<1, "X">>, <<1, "a">>, <<2, "Z">> >>
    /\ route.points[2].distance_from_prev = 40
    /\ route.points[3].distance_from_prev = 950

\* A risk score <<n, d>>, d > 0, lies in [0, 100]
InPercentRange(risk) == 0 <= risk[1] /\ risk[1] <= 100 * risk[2]

C30_TrainHorizonBeforeSplit ==
    pc = "split" =>
       \A k \in DOMAIN train_df :
          DictGet(train_df[k], "target_date") + PREDICTION_HORIZON_HOURS <= split_ts

====
